---- MODULE Spec2Model ----
(***************************************************************************)
(* A model of nntp/newsrc.c: the per-account registry of newsgroups, the   *)
(* .newsrc codec, the read-range synthesis and the subscription commands.  *)
(* Text is modelled as sequences of one-character strings, numbers are     *)
(* formatted to and scanned from decimal digits, and anum_t arithmetic is  *)
(* unsigned arithmetic modulo AnumMod.                                     *)
(***************************************************************************)
EXTENDS Integers, Sequences, FiniteSets, TLC

VARIABLES
  groups_list,        \* adata->groups_list[0 .. groups_num-1], insertion order
  adata_size,         \* adata->size: size of .newsrc when last parsed/written
  adata_mtime,        \* adata->mtime
  fp_newsrc,          \* adata->fp_newsrc: TRUE while the handle is open (and locked)
  newsrc,             \* content of the file at adata->newsrc_file
  newsrc_mtime,       \* st_mtime of that file
  tmpfile,            \* the sibling "<newsrc>.tmp": NoFile or [data |-> text]
  upd_pc,             \* position inside nntp_newsrc_update / update_file
  upd_buf,            \* buf built by nntp_newsrc_update
  upd_old,            \* what the target would hold had the last update not run
  m_mdata,            \* m->mdata: index of the open group in groups_list, 0 if none
  emails,             \* m->emails[0 .. msg_count-1]
  C_SaveUnsubscribed, \* Config: retain ranges of unsubscribed groups
  hc_index,           \* header cache of group "a": the record under key "index",
                      \* <<>> when there is none
  hc_keys,            \* header cache of group "a": the keys of the cached headers
  bcache,             \* body cache of group "a": the ids of the cached bodies
  cacheable,          \* adata->cacheable
  newgroups_time,     \* adata->newgroups_time
  active,             \* the text of the ".active" cache file, <<>> when there is none
  cachedir,           \* the cache directory: the group directories and ".hcache" files in it
  path_ino,           \* the inode found at adata->newsrc_file
  lk,                 \* per process: the inode its .newsrc handle is open on (0 for
                      \* NULL) and the lock it holds on it
  call,               \* the last call made and what it returned
  pre                 \* history: the registry and the call record as they were when
                      \* the last call began (recorded only when pre.on)

vars == <<groups_list, adata_size, adata_mtime, fp_newsrc, newsrc, newsrc_mtime,
          tmpfile, upd_pc, upd_buf, upd_old, m_mdata, emails,
          C_SaveUnsubscribed, hc_index, hc_keys, bcache, cacheable, newgroups_time,
          active, cachedir, path_ino, lk, call, pre>>

-----------------------------------------------------------------------------
(* Bounds of the model *)

\* UINT_MAX of the scaled-down anum_t (unsigned int); arithmetic is modulo AnumMax + 1
AnumMax == 15
\* the largest article number drawn as an input
MaxNum == 3
\* the longest range list drawn as an input
MaxEnt == 2

AnumMod == AnumMax + 1
Anum == 0 .. AnumMax

\* unsigned (anum_t) arithmetic
UAdd(a, b) == (a + b) % AnumMod
USub(a, b) == (a - b + AnumMod) % AnumMod

-----------------------------------------------------------------------------
(* Text *)

Digit == <<"0", "1", "2", "3", "4", "5", "6", "7", "8", "9">>
DigitSet == {Digit[i] : i \in 1 .. 10}
DigitVal(c) == (CHOOSE i \in 1 .. 10 : Digit[i] = c) - 1
Space == {" ", "\n", "\t"}

\* printf("%u", n)
RECURSIVE FmtU(_)
FmtU(n) == IF n < 10 THEN <<Digit[n + 1]>>
           ELSE FmtU(n \div 10) \o <<Digit[(n % 10) + 1]>>

\* the suffix of s from position i on
Drop(s, i) == IF i > Len(s) THEN <<>> ELSE SubSeq(s, i, Len(s))

\* strpbrk / strchr: position of the first character of s that is in cs, 0 if none
FirstOf(s, cs) ==
  IF \E i \in 1 .. Len(s) : s[i] \in cs
  THEN CHOOSE i \in 1 .. Len(s) : s[i] \in cs /\ \A k \in 1 .. i - 1 : s[k] \notin cs
  ELSE 0

RECURSIVE DigitsValue(_, _)
DigitsValue(s, acc) ==
  IF s = <<>> \/ Head(s) \notin DigitSet THEN acc
  ELSE DigitsValue(Tail(s), (acc * 10 + DigitVal(Head(s))) % AnumMod)

\* sscanf(s, "%u", &v): skips white space, takes an optional sign and at least
\* one digit; ok is (sscanf(...) == 1)
ScanU(s) ==
  LET nb == FirstOf(s, {c \in {s[i] : i \in 1 .. Len(s)} : c \notin Space})
      t  == IF nb = 0 THEN <<>> ELSE Drop(s, nb)
      sg == t # <<>> /\ Head(t) \in {"+", "-"}
      d  == IF sg THEN Tail(t) ELSE t
      v  == DigitsValue(d, 0)
  IN IF d = <<>> \/ Head(d) \notin DigitSet
     THEN [ok |-> FALSE, val |-> 0]
     ELSE [ok |-> TRUE,
           val |-> IF sg /\ Head(t) = "-" THEN USub(0, v) ELSE v]

-----------------------------------------------------------------------------
(* struct NntpMboxData, struct NewsrcEntry *)

Ent(f, l) == [first |-> f, last |-> l]

\* newsrc_ent = <<>> stands for the NULL pointer with newsrc_len = 0
NewGroup(name) ==
  [group |-> name, deleted |-> TRUE, subscribed |-> FALSE, allowed |-> FALSE,
   first_message |-> 0, last_message |-> 0, last_loaded |-> 0, last_cached |-> 0,
   unread |-> 0, newsrc_ent |-> <<>>, desc |-> <<>>]

\* UnreadLoop with the test "first < last": an entry clamped to one article is
\* not counted
RECURSIVE UnreadLoopStrict(_, _, _)
UnreadLoopStrict(mdata, i, unread) ==
  IF i > Len(mdata.newsrc_ent) THEN unread
  ELSE LET e     == mdata.newsrc_ent[i]
           first == IF e.first < mdata.first_message THEN mdata.first_message ELSE e.first
           last  == IF e.last > mdata.last_message THEN mdata.last_message ELSE e.last
       IN UnreadLoopStrict(mdata, i + 1,
                           IF first < last THEN USub(unread, UAdd(USub(last, first), 1))
                           ELSE unread)

\* one pass of the loop of nntp_group_unread_stat over newsrc_ent[i ..]
RECURSIVE UnreadLoop(_, _, _)
UnreadLoop(mdata, i, unread) ==
  IF i > Len(mdata.newsrc_ent) THEN unread
  ELSE LET e     == mdata.newsrc_ent[i]
           first == IF e.first < mdata.first_message THEN mdata.first_message ELSE e.first
           last  == IF e.last > mdata.last_message THEN mdata.last_message ELSE e.last
       IN UnreadLoop(mdata, i + 1,
                     IF first <= last THEN USub(unread, UAdd(USub(last, first), 1))
                     ELSE unread)

nntp_group_unread_stat(mdata) ==
  IF mdata.last_message = 0 \/ mdata.first_message > mdata.last_message
  THEN [mdata EXCEPT !.unread = 0]
  ELSE [mdata EXCEPT !.unread =
          UnreadLoop(mdata, 1, UAdd(USub(mdata.last_message, mdata.first_message), 1))]

-----------------------------------------------------------------------------
(* The registry *)

\* mutt_hash_find(adata->groups_hash, group): index in groups_list, 0 for NULL
hash_find(gl, name) ==
  IF \E i \in 1 .. Len(gl) : gl[i].group = name
  THEN CHOOSE i \in 1 .. Len(gl) : gl[i].group = name
  ELSE 0

\* mdata_find without the lookup: a group is appended at every call
mdata_find_always(gl, name) == Append(gl, NewGroup(name))

\* mdata_find that hands out a cleared group when the name is known
mdata_find_fresh(gl, name) ==
  IF hash_find(gl, name) # 0
  THEN [gl EXCEPT ![hash_find(gl, name)] = NewGroup(name)]
  ELSE Append(gl, NewGroup(name))

\* mdata_find: the list after the call (the group is appended when it is new)
mdata_find(gl, name) ==
  IF hash_find(gl, name) # 0 THEN gl ELSE Append(gl, NewGroup(name))

-----------------------------------------------------------------------------
(* The .newsrc codec *)

\* EntryText that prints an entry only when first < last
EntryTextNoSingle(e) ==
  IF e.first < e.last THEN FmtU(e.first) \o <<"-">> \o FmtU(e.last) ELSE <<>>

\* one entry as nntp_newsrc_update prints it; nothing is printed when first > last
EntryText(e) ==
  IF e.first = e.last THEN FmtU(e.first)
  ELSE IF e.first < e.last THEN FmtU(e.first) \o <<"-">> \o FmtU(e.last)
  ELSE <<>>

RECURSIVE EntriesText(_, _)
EntriesText(ent, j) ==
  IF j > Len(ent) THEN <<>>
  ELSE (IF j > 1 THEN <<",">> ELSE <<>>) \o EntryText(ent[j]) \o EntriesText(ent, j + 1)

\* GroupLine that writes ':' whatever the subscribed flag is
GroupLineColon(mdata) ==
  mdata.group \o <<":", " ">> \o EntriesText(mdata.newsrc_ent, 1) \o <<"\n">>

\* the line nntp_newsrc_update writes for one group
GroupLine(mdata) ==
  mdata.group \o <<IF mdata.subscribed THEN ":" ELSE "!", " ">>
    \o EntriesText(mdata.newsrc_ent, 1) \o <<"\n">>

\* NewsrcBuf without the test of newsrc_ent: a line for every group
RECURSIVE NewsrcBufAll(_, _)
NewsrcBufAll(gl, i) ==
  IF i > Len(gl) THEN <<>> ELSE GroupLine(gl[i]) \o NewsrcBufAll(gl, i + 1)

\* buf of nntp_newsrc_update: groups without newsrc_ent are skipped
RECURSIVE NewsrcBuf(_, _)
NewsrcBuf(gl, i) ==
  IF i > Len(gl) THEN <<>>
  ELSE (IF gl[i].newsrc_ent = <<>> THEN <<>> ELSE GroupLine(gl[i])) \o NewsrcBuf(gl, i + 1)

\* the entries loop of nntp_newsrc_parse over the text after the marker
RECURSIVE ParseEntries(_)
ParseEntries(p) ==
  LET c    == FirstOf(p, {","})
      b    == IF c = 0 THEN p ELSE SubSeq(p, 1, c - 1)
      d    == FirstOf(b, {"-"})
      bb   == IF d = 0 THEN b ELSE SubSeq(b, 1, d - 1)
      h    == IF d = 0 THEN b ELSE Drop(b, d + 1)
      f    == ScanU(bb)
      l    == ScanU(h)
      this == IF f.ok /\ l.ok THEN <<Ent(f.val, l.val)>> ELSE <<>>
  IN IF c = 0 THEN this ELSE this \o ParseEntries(Drop(p, c + 1))

\* ParseLine that takes last_message from the line whatever it was before
ParseLineAlwaysLast(gl, line) ==
  LET p == FirstOf(line, {":", "!"})
  IN IF p = 0 THEN gl
     ELSE LET subs   == line[p] = ":"
              name   == SubSeq(line, 1, p - 1)
              gl1    == mdata_find(gl, name)
              i      == hash_find(gl1, name)
              parsed == ParseEntries(Drop(line, p + 1))
              ent    == IF parsed = <<>> THEN <<Ent(1, 0)>> ELSE parsed
          IN [gl1 EXCEPT ![i] = nntp_group_unread_stat(
                [@ EXCEPT !.subscribed = subs, !.newsrc_ent = ent,
                          !.last_message = ent[Len(ent)].last])]

\* the body of the while loop of nntp_newsrc_parse for one line
ParseLine(gl, line) ==
  LET p == FirstOf(line, {":", "!"})
  IN IF p = 0 THEN gl
     ELSE LET subs   == line[p] = ":"
              name   == SubSeq(line, 1, p - 1)
              gl1    == mdata_find(gl, name)
              i      == hash_find(gl1, name)
              parsed == ParseEntries(Drop(line, p + 1))
              ent    == IF parsed = <<>> THEN <<Ent(1, 0)>> ELSE parsed
              last   == IF gl1[i].last_message = 0 THEN ent[Len(ent)].last
                        ELSE gl1[i].last_message
          IN [gl1 EXCEPT ![i] = nntp_group_unread_stat(
                [@ EXCEPT !.subscribed = subs, !.newsrc_ent = ent, !.last_message = last])]

\* fgets: the lines of a text, each with its newline
RECURSIVE Lines(_)
Lines(text) ==
  IF text = <<>> THEN <<>>
  ELSE LET n == FirstOf(text, {"\n"})
       IN IF n = 0 THEN <<text>>
          ELSE <<SubSeq(text, 1, n)>> \o Lines(Drop(text, n + 1))

\* ParseLines that gives up at the first line without a marker
RECURSIVE ParseLinesAbort(_, _, _)
ParseLinesAbort(gl, lines, k) ==
  IF k > Len(lines) \/ FirstOf(lines[k], {":", "!"}) = 0 THEN gl
  ELSE ParseLinesAbort(ParseLine(gl, lines[k]), lines, k + 1)

RECURSIVE ParseLines(_, _, _)
ParseLines(gl, lines, k) ==
  IF k > Len(lines) THEN gl ELSE ParseLines(ParseLine(gl, lines[k]), lines, k + 1)

\* Reparse without the loop that resets the groups
ReparseNoReset(gl, text) == ParseLines(gl, Lines(text), 1)

\* nntp_newsrc_parse once the file is found changed: every group is reset,
\* then every line is parsed
Reparse(gl, text) ==
  ParseLines([i \in 1 .. Len(gl) |-> [gl[i] EXCEPT !.subscribed = FALSE, !.newsrc_ent = <<>>]],
             Lines(text), 1)

-----------------------------------------------------------------------------
(* Read-range synthesis *)

Email(n, r, d) == [article_num |-> n, read |-> r, deleted |-> d]

\* GenLoop that closes a block at the unread article instead of before it
RECURSIVE GenLoopInclusive(_, _, _, _)
GenLoopInclusive(first_message, es, i, st) ==
  IF i > Len(es) THEN st
  ELSE LET e == es[i]
       IN IF st.series
          THEN IF e.article_num >= first_message /\ ~e.deleted /\ ~e.read
               THEN GenLoopInclusive(first_message, es, i + 1,
                      [st EXCEPT !.last = e.article_num, !.series = FALSE,
                                 !.ent = Append(@, Ent(st.first, e.article_num))])
               ELSE GenLoopInclusive(first_message, es, i + 1,
                                     [st EXCEPT !.last = e.article_num])
          ELSE IF e.deleted \/ e.read
               THEN GenLoopInclusive(first_message, es, i + 1,
                      [st EXCEPT !.first = UAdd(st.last, 1), !.series = TRUE,
                                 !.last = e.article_num])
               ELSE GenLoopInclusive(first_message, es, i + 1,
                                     [st EXCEPT !.last = e.article_num])

\* the for loop of nntp_newsrc_gen_entries; st carries first, last, series and
\* the entries written so far
RECURSIVE GenLoop(_, _, _, _)
GenLoop(first_message, es, i, st) ==
  IF i > Len(es) THEN st
  ELSE LET e == es[i]
       IN IF st.series
          THEN IF e.article_num >= first_message /\ ~e.deleted /\ ~e.read
               THEN GenLoop(first_message, es, i + 1,
                      [st EXCEPT !.last = e.article_num, !.series = FALSE,
                                 !.ent = Append(@, Ent(st.first, USub(e.article_num, 1)))])
               ELSE GenLoop(first_message, es, i + 1, [st EXCEPT !.last = e.article_num])
          ELSE IF e.deleted \/ e.read
               THEN GenLoop(first_message, es, i + 1,
                      [st EXCEPT !.first = UAdd(st.last, 1), !.series = TRUE,
                                 !.last = e.article_num])
               ELSE GenLoop(first_message, es, i + 1, [st EXCEPT !.last = e.article_num])

\* nntp_newsrc_gen_entries that appends to the entries the group had
nntp_newsrc_gen_entries_merging(mdata, es) ==
  LET st == GenLoop(mdata.first_message, es, 1,
                    [first |-> 1, last |-> 0, series |-> TRUE, ent |-> mdata.newsrc_ent])
  IN [mdata EXCEPT !.newsrc_ent =
        IF st.series /\ st.first <= mdata.last_loaded
        THEN Append(st.ent, Ent(st.first, mdata.last_loaded))
        ELSE st.ent]

\* nntp_newsrc_gen_entries that closes the last block without the test of
\* last_loaded
nntp_newsrc_gen_entries_untested(mdata, es) ==
  LET st == GenLoop(mdata.first_message, es, 1,
                    [first |-> 1, last |-> 0, series |-> TRUE, ent |-> <<>>])
  IN [mdata EXCEPT !.newsrc_ent =
        IF st.series THEN Append(st.ent, Ent(st.first, mdata.last_loaded)) ELSE st.ent]

\* nntp_newsrc_gen_entries(m) for m->mdata = mdata and m->emails = es (kept in
\* SORT_ORDER); the final realloc to zero entries leaves the NULL pointer
nntp_newsrc_gen_entries(mdata, es) ==
  LET st == GenLoop(mdata.first_message, es, 1,
                    [first |-> 1, last |-> 0, series |-> TRUE, ent |-> <<>>])
  IN [mdata EXCEPT !.newsrc_ent =
        IF st.series /\ st.first <= mdata.last_loaded
        THEN Append(st.ent, Ent(st.first, mdata.last_loaded))
        ELSE st.ent]

\* the test of nntp_article_status: is anum inside some entry
InNewsrc(mdata, anum) ==
  \E i \in 1 .. Len(mdata.newsrc_ent) :
     anum >= mdata.newsrc_ent[i].first /\ anum <= mdata.newsrc_ent[i].last

-----------------------------------------------------------------------------
(* The active listing *)

\* the text after the leading white space
SkipSpace(s) ==
  LET nb == FirstOf(s, {c \in {s[i] : i \in 1 .. Len(s)} : c \notin Space})
  IN IF nb = 0 THEN <<>> ELSE Drop(s, nb)

\* the text after the digits (and sign) that ScanU converts
RECURSIVE SkipDigits(_)
SkipDigits(s) == IF s = <<>> \/ Head(s) \notin DigitSet THEN s ELSE SkipDigits(Tail(s))

AfterU(s) ==
  LET t == SkipSpace(s)
  IN IF t # <<>> /\ Head(t) \in {"+", "-"} THEN SkipDigits(Tail(t)) ELSE SkipDigits(t)

\* sscanf(line, "%1023s %u %u %c %8191[^\n]", group, &last, &first, &mod, desc):
\* n is the number of fields converted
ScanActive(line) ==
  LET t1    == SkipSpace(line)
      e1    == FirstOf(t1, Space)
      group == IF e1 = 0 THEN t1 ELSE SubSeq(t1, 1, e1 - 1)
      r1    == IF e1 = 0 THEN <<>> ELSE Drop(t1, e1)
      last  == ScanU(r1)
      r2    == AfterU(r1)
      first == ScanU(r2)
      r3    == SkipSpace(AfterU(r2))
      r4    == IF r3 = <<>> THEN <<>> ELSE SkipSpace(Tail(r3))
      e4    == FirstOf(r4, {"\n"})
      desc  == IF e4 = 0 THEN r4 ELSE SubSeq(r4, 1, e4 - 1)
      n     == IF group = <<>> THEN 0
               ELSE IF ~last.ok THEN 1
               ELSE IF ~first.ok THEN 2
               ELSE IF r3 = <<>> THEN 3
               ELSE IF desc = <<>> THEN 4 ELSE 5
  IN [n |-> n, group |-> group, last |-> last.val, first |-> first.val,
      mod |-> IF r3 = <<>> THEN " " ELSE Head(r3), desc |-> desc]

\* add_group_unread that never looks at the ranges
add_group_unread_span(md) ==
  IF md.last_message # 0 /\ md.first_message <= md.last_message
  THEN [md EXCEPT !.unread = UAdd(USub(md.last_message, md.first_message), 1)]
  ELSE [md EXCEPT !.unread = 0]

\* nntp_add_group, lines 591-596: the unread count of the group just listed
add_group_unread(md) ==
  IF md.newsrc_ent # <<>> \/ md.last_cached # 0
  THEN nntp_group_unread_stat(md)
  ELSE IF md.last_message # 0 /\ md.first_message <= md.last_message
  THEN [md EXCEPT !.unread = UAdd(USub(md.last_message, md.first_message), 1)]
  ELSE [md EXCEPT !.unread = 0]

\* nntp_add_group, lines 586-596: the fields f of the line stored in the group
\* at index i
add_group_store(gl1, i, f) ==
  [gl1 EXCEPT ![i] =
     add_group_unread([@ EXCEPT !.deleted = FALSE, !.first_message = f.first,
                                !.last_message = f.last,
                                !.allowed = (f.mod = "y" \/ f.mod = "m"),
                                !.desc = f.desc])]

\* nntp_add_group, lines 585-596, for the converted fields f
add_group_fields(gl1, f) == add_group_store(gl1, hash_find(gl1, f.group), f)

\* nntp_add_group, after sscanf has converted the fields f
add_group_scanned(gl, f) ==
  IF f.n < 4 THEN gl ELSE add_group_fields(mdata_find(gl, f.group), f)

\* nntp_add_group(line, adata)
nntp_add_group(gl, line) == add_group_scanned(gl, ScanActive(line))

-----------------------------------------------------------------------------
(* The subscription commands, on the group at index i of the registry *)

\* subscribe_group that starts every subscription from the sentinel
subscribe_group_reset(mdata) ==
  [mdata EXCEPT !.subscribed = TRUE, !.newsrc_ent = <<Ent(1, 0)>>]

\* mutt_newsgroup_subscribe, after mdata_find
subscribe_group(mdata) ==
  [mdata EXCEPT !.subscribed = TRUE,
                !.newsrc_ent = IF @ = <<>> THEN <<Ent(1, 0)>> ELSE @]

\* unsubscribe_group that clears the range list under either policy
unsubscribe_group_clears(mdata, save) ==
  [mdata EXCEPT !.subscribed = FALSE, !.newsrc_ent = <<>>]

\* mutt_newsgroup_unsubscribe, for a group that was found
unsubscribe_group(mdata, save) ==
  [mdata EXCEPT !.subscribed = FALSE,
                !.newsrc_ent = IF save THEN @ ELSE <<>>]

\* catchup_group that starts the entry at first_message
catchup_group_from_first(mdata) ==
  [mdata EXCEPT !.newsrc_ent = IF @ = <<>> THEN @
                               ELSE <<Ent(mdata.first_message, mdata.last_message)>>,
                !.unread = 0]

\* mutt_newsgroup_catchup, for a group that was found
catchup_group(mdata) ==
  [mdata EXCEPT !.newsrc_ent = IF @ = <<>> THEN @ ELSE <<Ent(1, mdata.last_message)>>,
                !.unread = 0]

\* uncatchup_group that ends the entry at first_message itself
uncatchup_group_inclusive(mdata, open, msg_count) ==
  LET ent == IF mdata.newsrc_ent = <<>> THEN <<>>
             ELSE <<Ent(1, mdata.first_message)>>
  IN [mdata EXCEPT !.newsrc_ent = ent,
                   !.unread = IF open THEN msg_count
                              ELSE IF ent = <<>> THEN mdata.last_message
                              ELSE USub(mdata.last_message, ent[1].last)]

\* uncatchup_group that counts unread from the bounds also for the open group
uncatchup_group_from_bounds(mdata, open, msg_count) ==
  LET ent == IF mdata.newsrc_ent = <<>> THEN <<>>
             ELSE <<Ent(1, USub(mdata.first_message, 1))>>
  IN [mdata EXCEPT !.newsrc_ent = ent,
                   !.unread = IF ent = <<>> THEN mdata.last_message
                              ELSE USub(mdata.last_message, ent[1].last)]

\* mutt_newsgroup_uncatchup, for a group that was found; open says m->mdata == mdata
uncatchup_group(mdata, open, msg_count) ==
  LET ent == IF mdata.newsrc_ent = <<>> THEN <<>>
             ELSE <<Ent(1, USub(mdata.first_message, 1))>>
  IN [mdata EXCEPT !.newsrc_ent = ent,
                   !.unread = IF open THEN msg_count
                              ELSE IF ent = <<>> THEN mdata.last_message
                              ELSE USub(mdata.last_message, ent[1].last)]

\* mutt_set_flag(m, e, MUTT_READ, bf): the read flag of e becomes bf
mutt_set_flag(e, bf) == [e EXCEPT !.read = bf]

\* the loop of catchup and uncatchup over m->emails[0 .. msg_count-1]
SetAllRead(es, bf) == [k \in 1 .. Len(es) |-> mutt_set_flag(es[k], bf)]

\* the loop of nntp_mailbox over the loaded articles: those neither read nor deleted
LiveUnread(es) == Cardinality({j \in 1 .. Len(es) : ~es[j].read /\ ~es[j].deleted})

\* nntp_mailbox that ends the scan at the caller's own group when it skips it
RECURSIVE nntp_mailbox_stops(_, _, _, _)
nntp_mailbox_stops(gl, i, own, es) ==
  IF i > Len(gl) THEN 0
  ELSE IF ~gl[i].subscribed \/ gl[i].unread = 0
       THEN nntp_mailbox_stops(gl, i + 1, own, es)
       ELSE IF own # 0 /\ gl[i].group = gl[own].group /\ LiveUnread(es) = 0
            THEN 0
            ELSE i

\* nntp_mailbox(m, buf, buflen), from index i on: the index of the group whose
\* name is copied to buf, 0 when buf is left alone; own is the index of m->mdata,
\* 0 when m is not a newsgroup
RECURSIVE nntp_mailbox(_, _, _, _)
nntp_mailbox(gl, i, own, es) ==
  IF i > Len(gl) THEN 0
  ELSE IF ~gl[i].subscribed \/ gl[i].unread = 0
       THEN nntp_mailbox(gl, i + 1, own, es)
       ELSE IF own # 0 /\ gl[i].group = gl[own].group /\ LiveUnread(es) = 0
            THEN nntp_mailbox(gl, i + 1, own, es)
            ELSE i

-----------------------------------------------------------------------------
(* Inputs *)

\* the last second of the clock that stamps st_mtime
MaxTime == 2

\* st_mtime of a file written now, when the file at the path was stamped t:
\* the clock has not moved since, or it has
Stamps(t) == {t, t + 1} \cap (1 .. MaxTime)

\* the group the subscription commands are given for; "b" comes from the files
Names == {<<"a">>}

\* contents an editor or another client may leave in the .newsrc
FileChoices ==
  { <<>>,
    <<"a", ":", " ", "1", "-", "2", ",", "3", "\n", "b", "!", " ", "2", "\n">>,
    <<"j", "u", "n", "k", "\n", "b", ":", " ", "1", "-", "3", ",", "1", "-", "3", "\n">> }

\* lines of an active listing
ActiveLines ==
  { <<"a", " ", "3", " ", "1", " ", "y", "\n">>,
    <<"a", " ", "3", " ", "2", " ", "n", " ", "d", "\n">>,
    <<"b", " ", "0", " ", "0", "\n">> }

NoFile == [exists |-> FALSE, data |-> <<>>, mtime |-> 0]

Called(op, group, rc) == [op |-> op, group |-> group, rc |-> rc]

\* the history as the call that begins now records it
Note == IF pre.on THEN [on |-> TRUE, gl |-> groups_list, call |-> call] ELSE pre

NoHistory == [on |-> FALSE, gl |-> <<>>, call |-> Called("init", <<>>, 0)]

Idle == upd_pc = "idle"

fileVars == <<newsrc, newsrc_mtime, tmpfile>>
updVars == <<upd_pc, upd_buf, upd_old>>
mboxVars == <<m_mdata, emails>>
fpVars == <<adata_size, adata_mtime>>
cacheVars == <<hc_index, hc_keys, bcache, cacheable, newgroups_time, active, cachedir>>
lockVars == <<path_ino, lk>>

\* process 1 is the account of this model (adata->fp_newsrc), process 2 another
\* client that follows the same convention on the same .newsrc
Procs == {1, 2}

NoHandle == [fp |-> 0, locked |-> FALSE]

\* mutant of LockGranted: a lock that excludes nobody
LockGrantedShared(p, ino) == ino # 0

\* mutt_file_lock(fd, ...) is granted: the lock is advisory and exclusive, so
\* no other process holds a lock on the inode the descriptor is open on
LockGranted(p, ino) ==
  \A q \in Procs \ {p} : ~(lk[q].locked /\ lk[q].fp = ino)

\* the inode of a newly created file: one that no path and no handle refers to
FreshInode ==
  LET free == {n \in 1 .. 4 : n # path_ino /\ \A p \in Procs : lk[p].fp # n}
  IN CHOOSE n \in free : \A m \in free : n <= m

-----------------------------------------------------------------------------
(* Actions *)

\* the fingerprint test with the size comparison inverted
newsrc_unchanged_inverted == adata_size # Len(newsrc) /\ adata_mtime = newsrc_mtime

\* (adata->size == sb.st_size) && (adata->mtime == sb.st_mtime)
newsrc_unchanged == adata_size = Len(newsrc) /\ adata_mtime = newsrc_mtime

\* mutant of nntp_newsrc_parse: the groups are reset and the fingerprint is
\* recorded before the file is opened, locked and examined
nntp_newsrc_parse_resetting(io) ==
  /\ Idle
  /\ IF io # "ok"
     THEN /\ fp_newsrc' = FALSE
          /\ lk' = [lk EXCEPT ![1] = NoHandle]
          /\ adata_size' = Len(newsrc)
          /\ adata_mtime' = newsrc_mtime
          /\ groups_list' = Reparse(groups_list, <<>>)
          /\ call' = Called("parse", <<>>, -1)
     ELSE /\ LockGranted(1, path_ino)
          /\ fp_newsrc' = TRUE
          /\ lk' = [lk EXCEPT ![1] = [fp |-> path_ino, locked |-> TRUE]]
          /\ IF newsrc_unchanged
             THEN /\ call' = Called("parse", <<>>, 0)
                  /\ UNCHANGED <<groups_list, fpVars>>
             ELSE /\ adata_size' = Len(newsrc)
                  /\ adata_mtime' = newsrc_mtime
                  /\ groups_list' = Reparse(groups_list, newsrc)
                  /\ call' = Called("parse", <<>>, 1)
  /\ UNCHANGED <<fileVars, updVars, mboxVars, C_SaveUnsubscribed, path_ino, cacheVars>>
  /\ pre' = Note

\* nntp_newsrc_parse(adata); io names the system call that fails, if any
nntp_newsrc_parse(io) ==
  /\ Idle
  /\ IF io # "ok"
     THEN /\ fp_newsrc' = FALSE
          /\ lk' = [lk EXCEPT ![1] = NoHandle]
          /\ call' = Called("parse", <<>>, -1)
          /\ UNCHANGED <<groups_list, fpVars>>
     ELSE /\ LockGranted(1, path_ino)
          /\ fp_newsrc' = TRUE
          /\ lk' = [lk EXCEPT ![1] = [fp |-> path_ino, locked |-> TRUE]]
          /\ IF newsrc_unchanged
             THEN /\ call' = Called("parse", <<>>, 0)
                  /\ UNCHANGED <<groups_list, fpVars>>
             ELSE /\ adata_size' = Len(newsrc)
                  /\ adata_mtime' = newsrc_mtime
                  /\ groups_list' = Reparse(groups_list, newsrc)
                  /\ call' = Called("parse", <<>>, 1)
  /\ UNCHANGED <<fileVars, updVars, mboxVars, C_SaveUnsubscribed, path_ino, cacheVars>>
  /\ pre' = Note

Parse == \E io \in {"ok", "fopen", "lock", "stat"} : nntp_newsrc_parse(io)

\* nntp_newsrc_close(adata)
nntp_newsrc_close ==
  /\ Idle
  /\ fp_newsrc
  /\ fp_newsrc' = FALSE
  /\ lk' = [lk EXCEPT ![1] = NoHandle]
  /\ call' = Called("close", <<>>, 0)
  /\ UNCHANGED <<groups_list, fpVars, fileVars, updVars, mboxVars, C_SaveUnsubscribed,
                 path_ino, cacheVars>>
  /\ pre' = Note

\* one line of an active listing, out of lines, handed to nntp_add_group
AddGroupFrom(lines) ==
  /\ Idle
  /\ \E line \in lines :
       /\ groups_list' = nntp_add_group(groups_list, line)
       /\ call' = Called("add_group", ScanActive(line).group, 0)
  /\ UNCHANGED <<fpVars, fp_newsrc, fileVars, updVars, mboxVars, C_SaveUnsubscribed, lockVars, cacheVars>>
  /\ pre' = Note

AddGroup == AddGroupFrom(ActiveLines)

\* mutt_newsgroup_subscribe(adata, group)
mutt_newsgroup_subscribe(group) ==
  /\ Idle
  /\ IF group = <<>>
     THEN /\ call' = Called("subscribe", group, 0)
          /\ UNCHANGED groups_list
     ELSE /\ LET gl1 == mdata_find(groups_list, group)
                 i   == hash_find(gl1, group)
             IN groups_list' = [gl1 EXCEPT ![i] = subscribe_group(@)]
          /\ call' = Called("subscribe", group, 1)
  /\ UNCHANGED <<fpVars, fp_newsrc, fileVars, updVars, mboxVars, C_SaveUnsubscribed, lockVars, cacheVars>>
  /\ pre' = Note

Subscribe == \E group \in Names : mutt_newsgroup_subscribe(group)

\* mutt_newsgroup_unsubscribe without the test "!*group"
mutt_newsgroup_unsubscribe_any(group) ==
  /\ Idle
  /\ LET i == hash_find(groups_list, group)
     IN IF i = 0
        THEN /\ call' = Called("unsubscribe", group, 0)
             /\ UNCHANGED groups_list
        ELSE /\ groups_list' =
                  [groups_list EXCEPT ![i] = unsubscribe_group(@, C_SaveUnsubscribed)]
             /\ call' = Called("unsubscribe", group, 1)
  /\ UNCHANGED <<fpVars, fp_newsrc, fileVars, updVars, mboxVars, C_SaveUnsubscribed, lockVars, cacheVars>>
  /\ pre' = Note

\* mutt_newsgroup_unsubscribe(adata, group)
mutt_newsgroup_unsubscribe(group) ==
  /\ Idle
  /\ LET i == IF group = <<>> THEN 0 ELSE hash_find(groups_list, group)
     IN IF i = 0
        THEN /\ call' = Called("unsubscribe", group, 0)
             /\ UNCHANGED groups_list
        ELSE /\ groups_list' =
                  [groups_list EXCEPT ![i] = unsubscribe_group(@, C_SaveUnsubscribed)]
             /\ call' = Called("unsubscribe", group, 1)
  /\ UNCHANGED <<fpVars, fp_newsrc, fileVars, updVars, mboxVars, C_SaveUnsubscribed, lockVars, cacheVars>>
  /\ pre' = Note

Unsubscribe == \E group \in Names : mutt_newsgroup_unsubscribe(group)

\* mutt_newsgroup_catchup(m, adata, group)
mutt_newsgroup_catchup(group) ==
  /\ Idle
  /\ LET i == IF group = <<>> THEN 0 ELSE hash_find(groups_list, group)
     IN IF i = 0
        THEN /\ call' = Called("catchup", group, 0)
             /\ UNCHANGED <<groups_list, emails>>
        ELSE /\ groups_list' = [groups_list EXCEPT ![i] = catchup_group(@)]
             /\ emails' = IF m_mdata = i THEN SetAllRead(emails, TRUE) ELSE emails
             /\ call' = Called("catchup", group, 1)
  /\ UNCHANGED <<fpVars, fp_newsrc, fileVars, updVars, m_mdata, C_SaveUnsubscribed, lockVars, cacheVars>>
  /\ pre' = Note

Catchup == \E group \in Names : mutt_newsgroup_catchup(group)

\* mutt_newsgroup_uncatchup(m, adata, group)
mutt_newsgroup_uncatchup(group) ==
  /\ Idle
  /\ LET i == IF group = <<>> THEN 0 ELSE hash_find(groups_list, group)
     IN IF i = 0
        THEN /\ call' = Called("uncatchup", group, 0)
             /\ UNCHANGED <<groups_list, emails>>
        ELSE /\ groups_list' =
                  [groups_list EXCEPT ![i] = uncatchup_group(@, m_mdata = i, Len(emails))]
             /\ emails' = IF m_mdata = i THEN SetAllRead(emails, FALSE) ELSE emails
             /\ call' = Called("uncatchup", group, 1)
  /\ UNCHANGED <<fpVars, fp_newsrc, fileVars, updVars, m_mdata, C_SaveUnsubscribed, lockVars, cacheVars>>
  /\ pre' = Note

Uncatchup == \E group \in Names : mutt_newsgroup_uncatchup(group)

-----------------------------------------------------------------------------
(* Rewriting the .newsrc: nntp_newsrc_update and update_file, one system call
   per step, so that what other processes can see in between is a state *)

\* what may have reached the disk while buf sits in the stdio buffer
Flushed(buf) == {SubSeq(buf, 1, k) : k \in {0, Len(buf) \div 2, Len(buf)}}

\* nntp_newsrc_update up to the call of update_file: buf is generated
UpdateBegin ==
  /\ Idle
  /\ upd_pc' = "fopen"
  /\ upd_buf' = NewsrcBuf(groups_list, 1)
  /\ upd_old' = newsrc
  /\ call' = Called("update", <<>>, 0)
  /\ UNCHANGED <<groups_list, fpVars, fp_newsrc, fileVars, mboxVars, C_SaveUnsubscribed, lockVars, cacheVars>>
  /\ pre' = Note

\* update_file: fp = mutt_file_fopen(tmpfile, "w")
UpdOpen ==
  /\ upd_pc = "fopen"
  /\ \/ /\ \E t \in Stamps(newsrc_mtime) :
             tmpfile' = [exists |-> TRUE, data |-> <<>>, mtime |-> t]
        /\ upd_pc' = "fputs"
        /\ UNCHANGED call
     \/ /\ upd_pc' = "idle"          \* *tmpfile = '\0': nothing is unlinked
        /\ call' = Called("update_file_fopen", <<>>, -1)
        /\ UNCHANGED tmpfile
  /\ UNCHANGED <<groups_list, fpVars, fp_newsrc, newsrc, newsrc_mtime, upd_buf,
                 upd_old, mboxVars, C_SaveUnsubscribed, lockVars, cacheVars, pre>>

\* fputs that writes into the target itself
UpdWriteInPlace ==
  /\ upd_pc = "fputs"
  /\ \E d \in Flushed(upd_buf) :
       /\ newsrc' = d
       /\ \/ upd_pc' = "fclose"
          \/ d # upd_buf /\ upd_pc' = "unlink"
  /\ UNCHANGED <<groups_list, fpVars, fp_newsrc, tmpfile, newsrc_mtime, upd_buf,
                 upd_old, mboxVars, C_SaveUnsubscribed, lockVars, cacheVars, call, pre>>

\* update_file: fputs(buf, fp)
UpdWrite ==
  /\ upd_pc = "fputs"
  /\ \E d \in Flushed(upd_buf) :
       /\ tmpfile' = [tmpfile EXCEPT !.data = d]
       /\ \/ upd_pc' = "fclose"
          \/ d # upd_buf /\ upd_pc' = "unlink"
  /\ UNCHANGED <<groups_list, fpVars, fp_newsrc, newsrc, newsrc_mtime, upd_buf,
                 upd_old, mboxVars, C_SaveUnsubscribed, lockVars, cacheVars, call, pre>>

\* update_file: mutt_file_fclose(&fp)
UpdClose ==
  /\ upd_pc = "fclose"
  /\ \/ /\ tmpfile' = [tmpfile EXCEPT !.data = upd_buf]
        /\ upd_pc' = "rename"
     \/ /\ upd_pc' = "unlink"
        /\ UNCHANGED tmpfile
  /\ UNCHANGED <<groups_list, fpVars, fp_newsrc, newsrc, newsrc_mtime, upd_buf,
                 upd_old, mboxVars, C_SaveUnsubscribed, lockVars, cacheVars, call, pre>>

\* update_file: rename(tmpfile, filename)
UpdRename ==
  /\ upd_pc = "rename"
  /\ \/ /\ newsrc' = tmpfile.data
        /\ newsrc_mtime' = tmpfile.mtime
        /\ path_ino' = FreshInode
        /\ tmpfile' = NoFile
        /\ upd_pc' = "stat"
     \/ /\ upd_pc' = "unlink"
        /\ UNCHANGED <<newsrc, newsrc_mtime, path_ino, tmpfile>>
  /\ UNCHANGED <<groups_list, fpVars, fp_newsrc, upd_buf, upd_old, mboxVars,
                 C_SaveUnsubscribed, lk, cacheVars, call, pre>>

\* the failure exit without the unlink
UpdUnlinkForgotten ==
  /\ upd_pc = "unlink"
  /\ upd_pc' = "idle"
  /\ call' = Called("update_file", <<>>, -1)
  /\ UNCHANGED <<groups_list, fpVars, fp_newsrc, fileVars, upd_buf, upd_old, mboxVars,
                 C_SaveUnsubscribed, lockVars, cacheVars, pre>>

\* update_file: the failure exit, unlink(tmpfile) and return -1
UpdUnlink ==
  /\ upd_pc = "unlink"
  /\ tmpfile' = NoFile
  /\ upd_pc' = "idle"
  /\ call' = Called("update_file", <<>>, -1)
  /\ UNCHANGED <<groups_list, fpVars, fp_newsrc, newsrc, newsrc_mtime, upd_buf,
                 upd_old, mboxVars, C_SaveUnsubscribed, lockVars, cacheVars, pre>>

\* mutant of UpdStat: the success that recorded a new fingerprint reports 1
UpdStatUpdated ==
  /\ upd_pc = "stat"
  /\ upd_pc' = "idle"
  /\ \/ /\ adata_size' = Len(newsrc)
        /\ adata_mtime' = newsrc_mtime
        /\ call' = Called("update", <<>>,
                          IF <<Len(newsrc), newsrc_mtime>> # <<adata_size, adata_mtime>>
                          THEN 1 ELSE 0)
     \/ /\ call' = Called("update", <<>>, -1)
        /\ UNCHANGED fpVars
  /\ UNCHANGED <<groups_list, fp_newsrc, fileVars, upd_buf, upd_old, mboxVars,
                 C_SaveUnsubscribed, lockVars, cacheVars, pre>>

\* UpdStat that records the size and keeps the modification time it had
UpdStatSizeOnly ==
  /\ upd_pc = "stat"
  /\ upd_pc' = "idle"
  /\ \/ /\ adata_size' = Len(newsrc)
        /\ call' = Called("update", <<>>, 0)
        /\ UNCHANGED adata_mtime
     \/ /\ call' = Called("update", <<>>, -1)
        /\ UNCHANGED fpVars
  /\ UNCHANGED <<groups_list, fp_newsrc, fileVars, upd_buf, upd_old, mboxVars,
                 C_SaveUnsubscribed, lockVars, cacheVars, pre>>

\* nntp_newsrc_update after update_file returned 0: stat and record size, mtime
UpdStat ==
  /\ upd_pc = "stat"
  /\ upd_pc' = "idle"
  /\ \/ /\ adata_size' = Len(newsrc)
        /\ adata_mtime' = newsrc_mtime
        /\ call' = Called("update", <<>>, 0)
     \/ /\ call' = Called("update", <<>>, -1)
        /\ UNCHANGED fpVars
  /\ UNCHANGED <<groups_list, fp_newsrc, fileVars, upd_buf, upd_old, mboxVars,
                 C_SaveUnsubscribed, lockVars, cacheVars, pre>>

-----------------------------------------------------------------------------
(* The cache of the active listing *)

\* nntp_select_server: the cache directory is configured, caching is enabled
SelectCache ==
  /\ call.op = "init"
  /\ ~cacheable
  /\ cacheable' = TRUE
  /\ UNCHANGED <<groups_list, fpVars, fp_newsrc, fileVars, updVars, mboxVars,
                 C_SaveUnsubscribed, lockVars, hc_index, hc_keys, bcache, newgroups_time,
                 active, call, pre, cachedir>>

\* ActiveLinesOf that writes a line for the deleted groups too
RECURSIVE ActiveLinesOfAll(_, _)
ActiveLinesOfAll(gl, i) ==
  IF i > Len(gl) THEN <<>>
  ELSE gl[i].group \o <<" ">> \o FmtU(gl[i].last_message) \o <<" ">>
         \o FmtU(gl[i].first_message) \o <<" ">>
         \o <<(IF gl[i].allowed THEN "y" ELSE "n")>>
         \o (IF gl[i].desc # <<>> THEN <<" ">> \o gl[i].desc ELSE <<>>)
         \o <<"\n">>
         \o ActiveLinesOfAll(gl, i + 1)

\* nntp_active_save_cache: the line "%s %u %u %c%s%s\n" of every group from
\* index i on that is not deleted; desc = <<>> stands for the NULL pointer
RECURSIVE ActiveLinesOf(_, _)
ActiveLinesOf(gl, i) ==
  IF i > Len(gl) THEN <<>>
  ELSE (IF gl[i].deleted THEN <<>>
        ELSE gl[i].group \o <<" ">> \o FmtU(gl[i].last_message) \o <<" ">>
               \o FmtU(gl[i].first_message) \o <<" ">>
               \o <<(IF gl[i].allowed THEN "y" ELSE "n")>>
               \o (IF gl[i].desc # <<>> THEN <<" ">> \o gl[i].desc ELSE <<>>)
               \o <<"\n">>)
       \o ActiveLinesOf(gl, i + 1)

\* the buffer of nntp_active_save_cache: "%lu\n" and the lines of the groups
ActiveBuf(gl, t) == FmtU(t) \o <<"\n">> \o ActiveLinesOf(gl, 1)

\* nntp_active_save_cache(adata); io tells whether update_file succeeds
nntp_active_save_cache(io) ==
  /\ Idle
  /\ IF ~cacheable
     THEN /\ call' = Called("save_cache", <<>>, 0)
          /\ UNCHANGED active
     ELSE IF io = "ok"
     THEN /\ active' = ActiveBuf(groups_list, newgroups_time)
          /\ call' = Called("save_cache", <<>>, 0)
     ELSE /\ call' = Called("save_cache", <<>>, -1)
          /\ UNCHANGED active
  /\ UNCHANGED <<groups_list, fpVars, fp_newsrc, fileVars, updVars, mboxVars,
                 C_SaveUnsubscribed, lockVars, hc_index, hc_keys, bcache, cacheable,
                 newgroups_time, cachedir>>
  /\ pre' = Note

SaveCache == \E io \in {"ok", "update_file"} : nntp_active_save_cache(io)

\* active_get_cache: while (fgets(buf, sizeof(buf), fp)) nntp_add_group(buf, adata)
RECURSIVE AddGroups(_, _)
AddGroups(gl, ls) ==
  IF ls = <<>> THEN gl ELSE AddGroups(nntp_add_group(gl, Head(ls)), Tail(ls))

\* active_get_cache(adata) of a new account on the cache file text: the file
\* opens, sscanf(buf, "%ld%4095s", &t, file) converts one field, t is not 0
active_get_cache(text) ==
  IF \/ text = <<>>
     \/ ~ScanU(Head(Lines(text))).ok
     \/ SkipSpace(AfterU(Head(Lines(text)))) # <<>>
     \/ ScanU(Head(Lines(text))).val = 0
  THEN [rc |-> -1, time |-> 0, gl |-> <<>>]
  ELSE [rc |-> 0, time |-> ScanU(Head(Lines(text))).val,
        gl |-> AddGroups(<<>>, Tail(Lines(text)))]

\* a new session: nntp_select_server makes a new account and loads the list of
\* groups from the cache
LoadCache ==
  /\ Idle
  /\ cacheable
  /\ groups_list' = active_get_cache(active).gl
  /\ newgroups_time' = active_get_cache(active).time
  /\ call' = Called("get_cache", <<>>, active_get_cache(active).rc)
  /\ UNCHANGED <<fpVars, fp_newsrc, fileVars, updVars, mboxVars, C_SaveUnsubscribed,
                 lockVars, hc_index, hc_keys, bcache, cacheable, active, cachedir>>
  /\ pre' = Note

\* nntp_active_fetch and nntp_check_new_groups record the time of the refresh
Refresh ==
  /\ Idle
  /\ \E t \in 1 .. MaxTime :
       /\ t # newgroups_time
       /\ newgroups_time' = t
  /\ UNCHANGED <<groups_list, fpVars, fp_newsrc, fileVars, updVars, mboxVars,
                 C_SaveUnsubscribed, lockVars, hc_index, hc_keys, bcache, cacheable,
                 active, call, pre, cachedir>>

-----------------------------------------------------------------------------
(* The environment *)

\* another program rewrites the .newsrc with one of files
Rewritten(files) ==
  /\ \E f \in files :
       /\ newsrc' = f
       /\ newsrc_mtime' \in Stamps(newsrc_mtime)
       /\ upd_old' = f
  /\ UNCHANGED <<groups_list, fpVars, fp_newsrc, tmpfile, upd_pc, upd_buf, mboxVars,
                 C_SaveUnsubscribed, lockVars, cacheVars, call, pre>>

ExternalModify == Rewritten(FileChoices)

-----------------------------------------------------------------------------
(* The account: registry, .newsrc and commands *)

Init ==
  /\ groups_list = <<>>
  /\ adata_size = 0
  /\ adata_mtime = 0
  /\ fp_newsrc = FALSE
  /\ newsrc \in FileChoices
  /\ newsrc_mtime = 1
  /\ tmpfile = NoFile
  /\ upd_pc = "idle"
  /\ upd_buf = <<>>
  /\ upd_old = <<>>
  /\ m_mdata = 0
  /\ emails = <<>>
  /\ C_SaveUnsubscribed \in BOOLEAN
  /\ hc_index = <<>>
  /\ hc_keys = {}
  /\ bcache = {}
  /\ cacheable = FALSE
  /\ newgroups_time = 0
  /\ active = <<>>
  /\ cachedir = {}
  /\ path_ino = 1
  /\ lk = [p \in Procs |-> NoHandle]
  /\ call = Called("init", <<>>, 0)
  /\ pre \in {NoHistory, [NoHistory EXCEPT !.on = TRUE]}

Next ==
  \/ Parse
  \/ nntp_newsrc_close
  \/ AddGroup
  \/ Subscribe
  \/ Unsubscribe
  \/ Catchup
  \/ Uncatchup
  \/ ExternalModify

\* no history is kept
InitPlain == Init /\ ~pre.on

Spec == InitPlain /\ [][Next]_vars

-----------------------------------------------------------------------------
(* The rewrite of the .newsrc, step by step, with a process that can be killed *)

\* the process is killed inside update_file and started again: memory is
\* lost, the files stay
Crash ==
  /\ upd_pc \in {"fputs", "fclose", "rename"}
  /\ groups_list' = <<>>
  /\ adata_size' = 0
  /\ adata_mtime' = 0
  /\ fp_newsrc' = FALSE
  /\ upd_pc' = "idle"
  /\ upd_buf' = <<>>
  /\ lk' = [lk EXCEPT ![1] = NoHandle]
  /\ call' = Called("init", <<>>, 0)
  /\ UNCHANGED <<fileVars, upd_old, mboxVars, C_SaveUnsubscribed, path_ino, cacheVars, pre>>

\* an editor saves the file with one group line
ExternalEdit == Rewritten({<<"a", "!", " ", "2", "\n">>})

InitFile ==
  /\ Init
  /\ ~pre.on
  /\ newsrc = <<>>
  /\ ~C_SaveUnsubscribed

NextFile ==
  \/ Parse
  \/ Subscribe
  \/ UpdateBegin
  \/ UpdOpen
  \/ UpdWrite
  \/ UpdClose
  \/ UpdRename
  \/ UpdUnlink
  \/ UpdStat
  \/ ExternalEdit
  \/ Crash

SpecFile == InitFile /\ [][NextFile]_vars

-----------------------------------------------------------------------------
(* The pure functions, applied to inputs drawn from bounded sets *)

\* article numbers drawn for range lists: small ones and the largest anum_t
Nums == {0, 1, MaxNum, AnumMax}

RECURSIVE SeqsUpTo(_, _)
SeqsUpTo(S, n) ==
  IF n = 0 THEN {<<>>}
  ELSE LET shorter == SeqsUpTo(S, n - 1)
       IN shorter \cup {Append(q, x) : q \in shorter, x \in S}

\* every range list a .newsrc can give: entries in any order, empty ones included
Ents == {Ent(f, l) : f \in Nums, l \in Nums}
AnyLists == SeqsUpTo(Ents, MaxEnt)

\* the valid lists: entries with first <= last, or the sentinel alone
ValidLists ==
  (SeqsUpTo({e \in Ents : e.first <= e.last}, MaxEnt) \ {<<>>})
    \cup {<<Ent(1, 0)>>}

\* everything outside the registry at rest
Quiet ==
  /\ adata_size = 0
  /\ adata_mtime = 0
  /\ fp_newsrc = FALSE
  /\ newsrc = <<>>
  /\ newsrc_mtime = 1
  /\ tmpfile = NoFile
  /\ upd_pc = "idle"
  /\ upd_buf = <<>>
  /\ upd_old = <<>>
  /\ C_SaveUnsubscribed = FALSE
  /\ hc_index = <<>>
  /\ hc_keys = {}
  /\ bcache = {}
  /\ cacheable = FALSE
  /\ newgroups_time = 0
  /\ active = <<>>
  /\ cachedir = {}
  /\ path_ino = 1
  /\ lk = [p \in Procs |-> NoHandle]
  /\ call = Called("init", <<>>, 0)
  /\ pre = [NoHistory EXCEPT !.on = TRUE]

quietVars == <<fpVars, fp_newsrc, fileVars, updVars, C_SaveUnsubscribed, cacheVars, lockVars>>

\* bounds [1,10] with ranges [[1,3],[5,7]]
StatExample ==
  [NewGroup(<<"a">>) EXCEPT !.first_message = 1, !.last_message = 10,
                            !.newsrc_ent = <<Ent(1, 3), Ent(5, 7)>>]

InitStat ==
  /\ Quiet
  /\ m_mdata = 0
  /\ emails = <<>>
  /\ \E first \in 0 .. MaxNum, last \in 0 .. MaxNum, ent \in AnyLists, g \in BOOLEAN :
       groups_list =
         << IF g THEN StatExample
            ELSE [NewGroup(<<"a">>) EXCEPT !.first_message = first, !.last_message = last,
                                          !.newsrc_ent = ent] >>

\* nntp_group_unread_stat(mdata) on the drawn group
StatCall ==
  /\ call.op = "init"
  /\ groups_list' = <<nntp_group_unread_stat(groups_list[1])>>
  /\ call' = Called("unread_stat", groups_list[1].group, 0)
  /\ pre' = Note
  /\ UNCHANGED <<quietVars, mboxVars>>

NextStat == StatCall

SpecStat == InitStat /\ [][NextStat]_vars

\* a registry of one or two groups holding valid range lists
InitCodec ==
  /\ Quiet
  /\ m_mdata = 0
  /\ emails = <<>>
  /\ \E ent \in ValidLists, subs \in BOOLEAN,
        second \in {<<>>, <<Ent(1, 0)>>, <<Ent(MaxNum, MaxNum), Ent(1, MaxNum)>>},
        n \in 1 .. 2 :
       LET a == [NewGroup(<<"a">>) EXCEPT !.subscribed = subs, !.newsrc_ent = ent]
           b == [NewGroup(<<"b">>) EXCEPT !.subscribed = ~subs, !.newsrc_ent = second]
       IN groups_list = IF n = 1 THEN <<a>> ELSE <<b, a>>

\* the text nntp_newsrc_update generates, as the content of the file
CodecWrite ==
  /\ call.op = "init"
  /\ newsrc' = NewsrcBuf(groups_list, 1)
  /\ call' = Called("update", <<>>, 0)
  /\ pre' = Note
  /\ UNCHANGED <<groups_list, fpVars, fp_newsrc, newsrc_mtime, tmpfile, updVars,
                 mboxVars, C_SaveUnsubscribed, lockVars, cacheVars>>

\* nntp_newsrc_parse of that text, by the same process or by a fresh one
CodecRead ==
  /\ call.op = "update"
  /\ \E fresh \in BOOLEAN :
       groups_list' = Reparse(IF fresh THEN <<>> ELSE groups_list, newsrc)
  /\ call' = Called("parse", <<>>, 1)
  /\ UNCHANGED <<quietVars, mboxVars, pre>>

NextCodec == CodecWrite \/ CodecRead

SpecCodec == InitCodec /\ [][NextCodec]_vars

\* names of the first group: nntp_add_group and mutt_newsgroup_subscribe take
\* any name, one that holds a marker character too
WriteNames == {<<"a">>, <<"a", ":", "b">>}

\* a registry of one or two groups; the first holds any range list a .newsrc
\* or the synthesis can give (entries with first > last included) or no range
\* state
InitWrite ==
  /\ Quiet
  /\ m_mdata = 0
  /\ emails = <<>>
  /\ \E name \in WriteNames, ent \in AnyLists, subs \in BOOLEAN, subsB \in BOOLEAN,
        second \in {<<>>, <<Ent(1, 0)>>, <<Ent(MaxNum, MaxNum), Ent(1, MaxNum)>>},
        n \in 1 .. 3 :
       LET a == [NewGroup(name) EXCEPT !.subscribed = subs, !.newsrc_ent = ent]
           b == [NewGroup(<<"b">>) EXCEPT !.subscribed = subsB, !.newsrc_ent = second]
       IN groups_list = IF n = 1 THEN <<a>> ELSE IF n = 2 THEN <<a, b>> ELSE <<b, a>>

SpecWrite == InitWrite /\ [][NextCodec]_vars

\* the most lines of a drawn .newsrc
MaxLines == 3

\* lines of a .newsrc: with a marker, and without one
LineChoices ==
  { <<"j", "u", "n", "k", "\n">>,
    <<"\n">>,
    <<"c", " ", "1", "-", "3", "\n">>,
    <<"a", ":", " ", "1", "-", "2", ",", "3", "\n">>,
    <<"a", "!", " ", "3", "\n">>,
    <<"b", "!", " ", "2", "\n">> }

\* range tokens of a line: well formed, and not
TokenChoices ==
  { <<"1">>, <<"3">>, <<"1", "-", "3">>, <<"3", "a", "b", "c">>,
    <<"1", "-", "2", "-", "3">>, <<"x", "1">>, <<"-", "3">>, <<"3", "-">>,
    <<>>, <<"1", "-", "-", "2">> }

RECURSIVE Flatten(_)
Flatten(ss) == IF ss = <<>> THEN <<>> ELSE Head(ss) \o Flatten(Tail(ss))

RECURSIVE Join(_)
Join(toks) ==
  IF Len(toks) = 1 THEN toks[1] ELSE toks[1] \o <<",">> \o Join(Tail(toks))

\* the drawn files: some lines, or one line "a: " with some tokens
ParseTexts ==
  {Flatten(ls) : ls \in SeqsUpTo(LineChoices, MaxLines) \ {<<>>}}
    \cup {<<"a", ":", " ">> \o Join(toks) \o <<"\n">> :
            toks \in SeqsUpTo(TokenChoices, MaxEnt) \ {<<>>}}

\* a process that knows no group, or knows "b" as subscribed with [1,MaxNum],
\* finds one of the files
InitParse ==
  /\ adata_size = 0
  /\ adata_mtime = 0
  /\ fp_newsrc = FALSE
  /\ newsrc \in ParseTexts
  /\ newsrc_mtime = 1
  /\ tmpfile = NoFile
  /\ upd_pc = "idle"
  /\ upd_buf = <<>>
  /\ upd_old = <<>>
  /\ C_SaveUnsubscribed = FALSE
  /\ hc_index = <<>>
  /\ hc_keys = {}
  /\ bcache = {}
  /\ cacheable = FALSE
  /\ newgroups_time = 0
  /\ active = <<>>
  /\ cachedir = {}
  /\ path_ino = 1
  /\ lk = [p \in Procs |-> NoHandle]
  /\ m_mdata = 0
  /\ emails = <<>>
  /\ groups_list \in
       { <<>>,
         << [NewGroup(<<"b">>) EXCEPT !.subscribed = TRUE, !.last_message = MaxNum,
                                     !.newsrc_ent = <<Ent(1, MaxNum)>>] >> }
  /\ call = Called("init", <<>>, 0)
  /\ pre = [NoHistory EXCEPT !.on = TRUE]

\* the first nntp_newsrc_parse of the process
ParseText == call.op = "init" /\ nntp_newsrc_parse("ok")

NextParse == ParseText

SpecParse == InitParse /\ [][NextParse]_vars

\* the set S of article numbers as the list of emails in ascending order, with
\* the flags flag[n]
RECURSIVE Loaded(_, _)
Loaded(S, flag) ==
  IF S = {} THEN <<>>
  ELSE LET n == CHOOSE x \in S : \A y \in S : x <= y
       IN <<Email(n, flag[n].read, flag[n].deleted)>> \o Loaded(S \ {n}, flag)

Flags == [read : BOOLEAN, deleted : BOOLEAN]

\* articles 1..5 with read flags T,T,F,T,F
GenExample ==
  <<Email(1, TRUE, FALSE), Email(2, TRUE, FALSE), Email(3, FALSE, FALSE),
    Email(4, TRUE, FALSE), Email(5, FALSE, FALSE)>>

MaxOf(S) == IF S = {} THEN 0 ELSE CHOOSE x \in S : \A y \in S : x >= y

\* an open group: any loaded articles, last_loaded not below the highest of them
InitGen ==
  /\ Quiet
  /\ m_mdata = 1
  /\ \/ \E S \in SUBSET (1 .. MaxNum) : \E flag \in [S -> Flags] :
          \E first \in 0 .. MaxNum, loaded \in MaxOf(S) .. MaxNum + 1,
             old \in {<<>>, <<Ent(1, MaxNum)>>} :
            /\ emails = Loaded(S, flag)
            /\ groups_list =
                 <<[NewGroup(<<"a">>) EXCEPT !.first_message = first,
                                           !.last_message = loaded,
                                           !.last_loaded = loaded,
                                           !.newsrc_ent = old]>>
     \/ /\ emails = GenExample
        /\ groups_list =
             <<[NewGroup(<<"a">>) EXCEPT !.first_message = 1, !.last_message = 5,
                                       !.last_loaded = 5]>>

\* nntp_newsrc_gen_entries(m)
GenCall ==
  /\ call.op = "init"
  /\ groups_list' = <<nntp_newsrc_gen_entries(groups_list[1], emails)>>
  /\ call' = Called("gen_entries", groups_list[1].group, 0)
  /\ pre' = Note
  /\ UNCHANGED <<quietVars, mboxVars>>

NextGen == GenCall

SpecGen == InitGen /\ [][NextGen]_vars

-----------------------------------------------------------------------------
(* The subscription commands alone, with the history recorded *)

InitCmd ==
  /\ Init
  /\ newsrc = <<>>
  /\ pre.on

\* active-listing lines that give group "a" any bounds
ActiveBounds ==
  { <<"a", " ">> \o FmtU(last) \o <<" ">> \o FmtU(first) \o <<" ", "y", "\n">> :
      last \in {0, 1, MaxNum, AnumMax}, first \in {0, 1, MaxNum, AnumMax} }

AddGroupBounds == AddGroupFrom(ActiveBounds)

NextCmd ==
  \/ AddGroupBounds
  \/ Subscribe
  \/ Unsubscribe
  \/ Catchup
  \/ Uncatchup

SpecCmd == InitCmd /\ [][NextCmd]_vars

-----------------------------------------------------------------------------
(* An open newsgroup: the commands and nntp_mailbox with a live article list *)

MboxNames == {<<"a">>, <<"b">>}

\* the highest article number loaded into the open mailbox
MaxLoaded == 2

\* active-listing lines that give both groups the window [1, MaxNum]
MboxLines ==
  { g \o <<" ">> \o FmtU(MaxNum) \o <<" ", "1", " ", "y", "\n">> : g \in MboxNames }

AddGroupMbox == AddGroupFrom(MboxLines)

SubscribeMbox == \E group \in MboxNames : mutt_newsgroup_subscribe(group)

CatchupMbox == \E group \in MboxNames : mutt_newsgroup_catchup(group)

UncatchupMbox == \E group \in MboxNames : mutt_newsgroup_uncatchup(group)

\* a group of the registry is opened as the mailbox m: some of the articles of
\* its window are loaded, none of them read or deleted
OpenMailbox ==
  /\ Idle
  /\ m_mdata = 0
  /\ \E i \in 1 .. Len(groups_list) :
       \E S \in SUBSET {n \in 1 .. MaxLoaded : /\ n >= groups_list[i].first_message
                                                /\ n <= groups_list[i].last_message} :
         /\ m_mdata' = i
         /\ emails' = Loaded(S, [n \in S |-> [read |-> FALSE, deleted |-> FALSE]])
         /\ call' = Called("open", groups_list[i].group, 0)
  /\ UNCHANGED <<groups_list, fpVars, fp_newsrc, fileVars, updVars, C_SaveUnsubscribed, lockVars, cacheVars>>
  /\ pre' = Note

\* the user reads or deletes one loaded article
MarkArticle ==
  /\ Idle
  /\ \E k \in 1 .. Len(emails) :
       \/ /\ ~emails[k].read
          /\ emails' = [emails EXCEPT ![k] = mutt_set_flag(@, TRUE)]
       \/ /\ ~emails[k].deleted
          /\ emails' = [emails EXCEPT ![k].deleted = TRUE]
  /\ call' = Called("mark", <<>>, 0)
  /\ UNCHANGED <<groups_list, fpVars, fp_newsrc, fileVars, updVars, m_mdata,
                 C_SaveUnsubscribed, lockVars, cacheVars>>
  /\ pre' = Note

\* nntp_mailbox(m, buf, buflen) with m the open mailbox
Mailbox ==
  /\ Idle
  /\ LET i == nntp_mailbox(groups_list, 1, m_mdata, emails)
     IN call' = Called("mailbox", IF i = 0 THEN <<>> ELSE groups_list[i].group, i)
  /\ UNCHANGED <<groups_list, fpVars, fp_newsrc, fileVars, updVars, mboxVars,
                 C_SaveUnsubscribed, lockVars, cacheVars>>
  /\ pre' = Note

\* nntp_newsrc_gen_entries(m) for the open mailbox
GenEntries ==
  /\ Idle
  /\ m_mdata # 0
  /\ groups_list' =
       [groups_list EXCEPT ![m_mdata] = nntp_newsrc_gen_entries(@, emails)]
  /\ call' = Called("gen_entries", groups_list[m_mdata].group, 0)
  /\ UNCHANGED <<fpVars, fp_newsrc, fileVars, updVars, mboxVars, C_SaveUnsubscribed,
                 lockVars, cacheVars>>
  /\ pre' = Note

InitMbox ==
  /\ Init
  /\ newsrc = <<>>
  /\ ~C_SaveUnsubscribed
  /\ ~pre.on

NextMbox ==
  \/ AddGroupMbox
  \/ SubscribeMbox
  \/ OpenMailbox
  \/ MarkArticle
  \/ CatchupMbox
  \/ UncatchupMbox
  \/ Mailbox

SpecMbox == InitMbox /\ [][NextMbox]_vars

\* The subscriptions through every operation that touches the range state:
\* the parse of the .newsrc, the commands, the synthesis from the open
\* mailbox, and the rewrite of the .newsrc.
InitSubs ==
  /\ Init
  /\ ~C_SaveUnsubscribed
  /\ ~pre.on

NextSubs ==
  \/ Parse
  \/ Subscribe
  \/ Unsubscribe
  \/ Catchup
  \/ Uncatchup
  \/ OpenMailbox
  \/ MarkArticle
  \/ GenEntries

SpecSubs == InitSubs /\ [][NextSubs]_vars

-----------------------------------------------------------------------------
(* Two groups: the .newsrc, the active listing, subscribe and unsubscribe, with
   the history recorded *)

UnsubscribeMbox == \E group \in MboxNames : mutt_newsgroup_unsubscribe(group)

InitPair ==
  /\ Init
  /\ pre.on

NextPair ==
  \/ Parse
  \/ AddGroupMbox
  \/ SubscribeMbox
  \/ UnsubscribeMbox

SpecPair == InitPair /\ [][NextPair]_vars

\* Names of every kind: the commands are given the names "a", "b" and the
\* empty name, and the .newsrc holds lines whose name is empty or repeated.
CmdNames == {<<>>, <<"a">>, <<"b">>}

NameFiles ==
  { <<"b", "!", " ", "2", "\n", ":", " ", "1", "\n", "b", ":", " ", "1", "\n">>,
    <<"!", " ", "1", "\n", "a", ":", " ", "1", "-", "2", "\n">> }

EditNames == Rewritten(NameFiles)

ParseNames == nntp_newsrc_parse("ok")

AddGroupName == AddGroupFrom({<<"a", " ", "2", " ", "1", " ", "y", "\n">>})

SubscribeAny == \E group \in CmdNames : mutt_newsgroup_subscribe(group)

UnsubscribeAny == \E group \in CmdNames : mutt_newsgroup_unsubscribe(group)

CatchupAny == \E group \in CmdNames : mutt_newsgroup_catchup(group)

UncatchupAny == \E group \in CmdNames : mutt_newsgroup_uncatchup(group)

NextNames ==
  \/ EditNames
  \/ ParseNames
  \/ AddGroupName
  \/ SubscribeAny
  \/ UnsubscribeAny
  \/ CatchupAny
  \/ UncatchupAny

SpecNames == InitFile /\ [][NextNames]_vars

\* Two clients of one .newsrc.  The other client follows the same convention:
\* nntp_newsrc_parse opens the file at the path and locks it, nntp_newsrc_close
\* unlocks and closes, nntp_newsrc_update replaces the file at the path by a
\* renamed temporary file while the handle is open.
PeerParse ==
  /\ \/ /\ LockGranted(2, path_ino)
        /\ lk' = [lk EXCEPT ![2] = [fp |-> path_ino, locked |-> TRUE]]
     \/ lk' = [lk EXCEPT ![2] = NoHandle]
  /\ UNCHANGED <<groups_list, fpVars, fp_newsrc, fileVars, updVars, mboxVars,
                 C_SaveUnsubscribed, path_ino, cacheVars, call, pre>>

PeerClose ==
  /\ lk[2].fp # 0
  /\ lk' = [lk EXCEPT ![2] = NoHandle]
  /\ UNCHANGED <<groups_list, fpVars, fp_newsrc, fileVars, updVars, mboxVars,
                 C_SaveUnsubscribed, path_ino, cacheVars, call, pre>>

PeerUpdate ==
  /\ Idle
  /\ lk[2].locked
  /\ newsrc' = <<"a", "!", " ", "2", "\n">>
  /\ newsrc_mtime' \in Stamps(newsrc_mtime)
  /\ path_ino' = FreshInode
  /\ UNCHANGED <<groups_list, fpVars, fp_newsrc, tmpfile, updVars, mboxVars,
                 C_SaveUnsubscribed, lk, cacheVars, call, pre>>

NextLock ==
  \/ Parse
  \/ nntp_newsrc_close
  \/ Subscribe
  \/ UpdateBegin
  \/ UpdOpen
  \/ UpdWrite
  \/ UpdClose
  \/ UpdRename
  \/ UpdUnlink
  \/ UpdStat
  \/ PeerParse
  \/ PeerClose
  \/ PeerUpdate

SpecLock == InitFile /\ [][NextLock]_vars

\* The operations that report an outcome: parse, rewrite of the .newsrc and the
\* save of the active cache, on a registry filled from the .newsrc, the active
\* listing and subscribe.
NextOutcome ==
  \/ SelectCache
  \/ Parse
  \/ AddGroup
  \/ Subscribe
  \/ UpdateBegin
  \/ UpdOpen
  \/ UpdWrite
  \/ UpdClose
  \/ UpdRename
  \/ UpdUnlink
  \/ UpdStat
  \/ SaveCache

SpecOutcome == InitFile /\ [][NextOutcome]_vars

\* nntp_add_group on a registry that is empty or holds group "a" with any range
\* state, last-cached marker and description
InitActive ==
  /\ Quiet
  /\ m_mdata = 0
  /\ emails = <<>>
  /\ \E ent \in {<<>>, <<Ent(1, 0)>>, <<Ent(1, 1)>>, <<Ent(2, 2)>>, <<Ent(1, AnumMax)>>,
                  <<Ent(1, 1), Ent(MaxNum, MaxNum)>>, <<Ent(MaxNum, AnumMax)>>},
        cached \in {0, 1}, desc \in {<<>>, <<"x">>},
        known \in BOOLEAN :
       groups_list =
         IF known
         THEN << [NewGroup(<<"a">>) EXCEPT !.newsrc_ent = ent, !.last_cached = cached,
                                          !.desc = desc] >>
         ELSE <<>>

\* lines of an active listing: windows that hold articles and windows that hold
\* none, the flags y, n and m, with and without description, and lines of
\* fewer than four fields
ListingLines ==
  ActiveLines
    \cup { <<"a", " ", "3", " ", "1", " ", "m", "\n">>,
           <<"a", " ", "0", " ", "0", " ", "y", "\n">>,
           <<"a", " ", "1", " ", "3", " ", "y", "\n">>,
           <<"c", " ", "2", "\n">>,
           <<"c", "\n">> }

AddGroupAny == AddGroupFrom(ListingLines)

SpecActive == InitActive /\ [][AddGroupAny]_vars

\* The cache of the active listing: groups listed by the server, groups known
\* from a subscription only, the save and the load of the cache file.
NextActiveCache ==
  \/ SelectCache
  \/ Refresh
  \/ AddGroupAny
  \/ AddGroupMbox
  \/ SubscribeMbox
  \/ SaveCache
  \/ LoadCache

SpecActiveCache == InitFile /\ [][NextActiveCache]_vars

-----------------------------------------------------------------------------
(* The header cache and the body cache of group "a" *)

\* mutt_hcache_delete_header(hc, key, keylen)
mutt_hcache_delete_header(keys, key) == keys \ {key}

\* mutt_bcache_del(bcache, id)
mutt_bcache_del(ids, id) == ids \ {id}

\* sscanf(hdata, "%u %u", &first, &last) == 2
ScanIndex(hdata) ==
  [ok    |-> ScanU(hdata).ok /\ ScanU(AfterU(hdata)).ok,
   first |-> ScanU(hdata).val,
   last  |-> ScanU(AfterU(hdata)).val]

\* nntp_hcache_update, the loop over current .. last: the keys that are left
RECURSIVE CleanLoop(_, _, _, _)
CleanLoop(mdata, keys, current, last) ==
  IF current > last THEN keys
  ELSE CleanLoop(mdata,
                 IF current >= mdata.first_message /\ current <= mdata.last_message
                 THEN keys
                 ELSE mutt_hcache_delete_header(keys, FmtU(current)),
                 current + 1, last)

\* snprintf(buf, sizeof(buf), "%u %u", mdata->first_message, mdata->last_message)
IndexText(mdata) == FmtU(mdata.first_message) \o <<" ">> \o FmtU(mdata.last_message)

\* nntp_hcache_update(mdata, hc) for an open hc whose index record converts to idx
hcache_update_old(mdata, index, keys, idx) ==
  [mdata |-> [mdata EXCEPT !.last_cached = idx.last],
   keys  |-> CleanLoop(mdata, keys, idx.first, idx.last),
   index |-> IF mdata.first_message # idx.first \/ mdata.last_message # idx.last
             THEN IndexText(mdata) ELSE index]

\* nntp_hcache_update(mdata, hc) for an open hc
nntp_hcache_update(mdata, index, keys) ==
  IF index # <<>> /\ ScanIndex(index).ok
  THEN hcache_update_old(mdata, index, keys, ScanIndex(index))
  ELSE [mdata |-> mdata, keys |-> keys, index |-> IndexText(mdata)]

\* the data argument NULL of mutt_bcache_list
NullData == [group |-> <<>>]

\* nntp_bcache_delete(id, bcache, mdata): the ids left after the callback for id
nntp_bcache_delete(id, ids, mdata) ==
  IF \/ mdata = NullData
     \/ ~ScanU(id).ok
     \/ AfterU(id) # <<>>
     \/ ScanU(id).val < mdata.first_message
     \/ ScanU(id).val > mdata.last_message
  THEN mutt_bcache_del(ids, id)
  ELSE ids

\* mutt_bcache_list(mdata->bcache, nntp_bcache_delete, mdata): the callback is
\* called for each of the ids in todo
RECURSIVE mutt_bcache_list(_, _, _)
mutt_bcache_list(todo, ids, mdata) ==
  IF todo = {} THEN ids
  ELSE LET id == CHOOSE x \in todo : TRUE
       IN mutt_bcache_list(todo \ {id}, nntp_bcache_delete(id, ids, mdata), mdata)

\* nntp_bcache_update(mdata)
nntp_bcache_update(mdata, ids) == mutt_bcache_list(ids, ids, mdata)

\* the group whose caches are modelled
CacheGroup == <<"a">>

\* active-listing lines that move the window of the group
CacheLines ==
  { CacheGroup \o <<" ">> \o FmtU(last) \o <<" ">> \o FmtU(first) \o <<" ", "y", "\n">> :
      last \in {1, MaxNum}, first \in {1, MaxNum} }

AddGroupCache == AddGroupFrom(CacheLines)

\* the article numbers of the window of mdata
Window(mdata) == {n \in 1 .. MaxNum : n >= mdata.first_message /\ n <= mdata.last_message}

\* the header of an article of the window is stored in the header cache, whose
\* index record exists
StoreHeader ==
  /\ Idle
  /\ hc_index # <<>>
  /\ hash_find(groups_list, CacheGroup) # 0
  /\ \E n \in Window(groups_list[hash_find(groups_list, CacheGroup)]) :
       hc_keys' = hc_keys \cup {FmtU(n)}
  /\ call' = Called("store_header", CacheGroup, 0)
  /\ UNCHANGED <<groups_list, fpVars, fp_newsrc, fileVars, updVars, mboxVars,
                 C_SaveUnsubscribed, lockVars, hc_index, bcache, cacheable, newgroups_time,
                 active, cachedir>>
  /\ pre' = Note

\* the body of an article of the window is stored in the body cache
StoreBody ==
  /\ Idle
  /\ hash_find(groups_list, CacheGroup) # 0
  /\ \E n \in Window(groups_list[hash_find(groups_list, CacheGroup)]) :
       bcache' = bcache \cup {FmtU(n)}
  /\ call' = Called("store_body", CacheGroup, 0)
  /\ UNCHANGED <<groups_list, fpVars, fp_newsrc, fileVars, updVars, mboxVars,
                 C_SaveUnsubscribed, lockVars, hc_index, hc_keys, cacheable, newgroups_time,
                 active, cachedir>>
  /\ pre' = Note

\* nntp_hcache_open(mdata) answers with a header cache, not NULL
hcache_opens(mdata) ==
  cacheable /\ (mdata.newsrc_ent # <<>> \/ mdata.subscribed \/ C_SaveUnsubscribed)

\* nntp_hcache_update(mdata, nntp_hcache_open(mdata)) for the group at index i;
\* the loop does not end when the recorded last is UINT_MAX
HcacheUpdateAt(i) ==
  IF ~hcache_opens(groups_list[i])
  THEN /\ call' = Called("hcache_update", CacheGroup, 0)
       /\ UNCHANGED <<groups_list, hc_index, hc_keys>>
  ELSE /\ ~(hc_index # <<>> /\ ScanIndex(hc_index).ok /\ ScanIndex(hc_index).last = AnumMax)
       /\ groups_list' =
            [groups_list EXCEPT ![i] = nntp_hcache_update(@, hc_index, hc_keys).mdata]
       /\ hc_keys' = nntp_hcache_update(groups_list[i], hc_index, hc_keys).keys
       /\ hc_index' = nntp_hcache_update(groups_list[i], hc_index, hc_keys).index
       /\ call' = Called("hcache_update", CacheGroup, 1)

HcacheUpdate ==
  /\ Idle
  /\ hash_find(groups_list, CacheGroup) # 0
  /\ HcacheUpdateAt(hash_find(groups_list, CacheGroup))
  /\ UNCHANGED <<fpVars, fp_newsrc, fileVars, updVars, mboxVars, C_SaveUnsubscribed, lockVars,
                 bcache, cacheable, newgroups_time, active, cachedir>>
  /\ pre' = Note

\* nntp_bcache_update(mdata) for the group
BcacheUpdate ==
  /\ Idle
  /\ hash_find(groups_list, CacheGroup) # 0
  /\ bcache' = nntp_bcache_update(groups_list[hash_find(groups_list, CacheGroup)], bcache)
  /\ call' = Called("bcache_update", CacheGroup, 1)
  /\ UNCHANGED <<groups_list, fpVars, fp_newsrc, fileVars, updVars, mboxVars,
                 C_SaveUnsubscribed, lockVars, hc_index, hc_keys, cacheable, newgroups_time,
                 active, cachedir>>
  /\ pre' = Note

\* nntp_delete_group_cache(mdata): the group, the header cache file and the
\* body cache after it
nntp_delete_group_cache(mdata, index, keys, ids) ==
  IF ~cacheable
  THEN [mdata |-> mdata, index |-> index, keys |-> keys, ids |-> ids]
  ELSE [mdata |-> [mdata EXCEPT !.last_cached = 0],
        index |-> <<>>,
        keys  |-> {},
        ids   |-> mutt_bcache_list(ids, ids, NullData)]

\* nntp_delete_group_cache(mdata) for the group whose caches are modelled
DeleteGroupCache ==
  /\ Idle
  /\ hash_find(groups_list, CacheGroup) # 0
  /\ LET i == hash_find(groups_list, CacheGroup)
         r == nntp_delete_group_cache(groups_list[i], hc_index, hc_keys, bcache)
     IN /\ groups_list' = [groups_list EXCEPT ![i] = r.mdata]
        /\ hc_index' = r.index
        /\ hc_keys' = r.keys
        /\ bcache' = r.ids
  /\ call' = Called("delete_group_cache", CacheGroup, 0)
  /\ UNCHANGED <<fpVars, fp_newsrc, fileVars, updVars, mboxVars, C_SaveUnsubscribed, lockVars,
                 cacheable, newgroups_time, active, cachedir>>
  /\ pre' = Note

\* the names an artifact of the cache directory can bear: group directories
\* and files "<name>.hcache"; no group is ever called "x"
ArtifactNames == {<<"a">>, <<"b">>, <<"x">>}

\* an earlier session left an artifact in the cache directory
CacheArtifact ==
  /\ Idle
  /\ cacheable
  /\ \E name \in ArtifactNames, kind \in {"dir", "hcache"} :
       /\ [name |-> name, kind |-> kind] \notin cachedir
       /\ cachedir' = cachedir \cup {[name |-> name, kind |-> kind]}
       /\ call' = Called("artifact", name, 0)
  /\ UNCHANGED <<groups_list, fpVars, fp_newsrc, fileVars, updVars, mboxVars,
                 C_SaveUnsubscribed, lockVars, hc_index, hc_keys, bcache, cacheable,
                 newgroups_time, active>>
  /\ pre' = Note

\* nntp_clear_cache that spares only the subscribed groups and, under the
\* policy, the tracked ones
clear_cache_skips_subscribed(gl, name) ==
  /\ hash_find(gl, name) # 0
  /\ gl[hash_find(gl, name)].subscribed \/ C_SaveUnsubscribed

\* nntp_clear_cache: the entry named after the group is passed over
\* (mdata && (mdata->newsrc_ent || mdata->subscribed || C_SaveUnsubscribed))
clear_cache_skips(gl, name) ==
  /\ hash_find(gl, name) # 0
  /\ \/ gl[hash_find(gl, name)].newsrc_ent # <<>>
     \/ gl[hash_find(gl, name)].subscribed
     \/ C_SaveUnsubscribed

\* nntp_clear_cache: the group is handed to nntp_delete_group_cache
Swept(name) ==
  /\ \E x \in cachedir : x.name = name
  /\ ~clear_cache_skips(groups_list, name)

\* nntp_clear_cache(adata): every entry of the cache directory that is not
\* passed over is purged by nntp_delete_group_cache, directories by rmdir too
nntp_clear_cache ==
  /\ Idle
  /\ IF ~cacheable
     THEN UNCHANGED <<groups_list, hc_index, hc_keys, bcache, cachedir>>
     ELSE /\ cachedir' = {x \in cachedir : ~Swept(x.name)}
          /\ groups_list' =
               [i \in 1 .. Len(groups_list) |->
                  IF Swept(groups_list[i].group)
                  THEN [groups_list[i] EXCEPT !.last_cached = 0]
                  ELSE groups_list[i]]
          /\ IF Swept(CacheGroup)
             THEN /\ hc_index' = <<>>
                  /\ hc_keys' = {}
                  /\ bcache' = mutt_bcache_list(bcache, bcache, NullData)
             ELSE UNCHANGED <<hc_index, hc_keys, bcache>>
  /\ call' = Called("clear_cache", <<>>, 0)
  /\ UNCHANGED <<fpVars, fp_newsrc, fileVars, updVars, mboxVars, C_SaveUnsubscribed, lockVars,
                 cacheable, newgroups_time, active>>
  /\ pre' = Note

\* The purge of the caches: groups from the .newsrc, the active listing and
\* the commands, under either policy, and a cache directory with artifacts of
\* tracked and of unknown groups.
NextSweep ==
  \/ SelectCache
  \/ Parse
  \/ SubscribeMbox
  \/ UnsubscribeMbox
  \/ StoreBody
  \/ CacheArtifact
  \/ nntp_clear_cache

SpecSweep == InitPlain /\ [][NextSweep]_vars

\* nntp_select_server, the "check cache files" loop: the group whose header
\* cache holds an index record takes its bounds from it when the server does
\* not list the group, and last_cached when the recorded last is in the window
check_cache_files(gl) ==
  [i \in 1 .. Len(gl) |->
     IF /\ gl[i].group = CacheGroup
        /\ cacheable
        /\ [name |-> CacheGroup, kind |-> "hcache"] \in cachedir
        /\ hcache_opens(gl[i])
        /\ hc_index # <<>>
        /\ ScanIndex(hc_index).ok
     THEN LET idx == ScanIndex(hc_index)
              m1  == IF gl[i].deleted
                     THEN [gl[i] EXCEPT !.first_message = idx.first,
                                        !.last_message = idx.last]
                     ELSE gl[i]
          IN IF idx.last >= m1.first_message /\ idx.last <= m1.last_message
             THEN [m1 EXCEPT !.last_cached = idx.last]
             ELSE m1
     ELSE gl[i]]

\* the listing the server sends to nntp_active_fetch
ServerListing ==
  << <<"a", " ", "3", " ", "1", " ", "y", "\n">>, <<"b", " ", "0", " ", "0", "\n">> >>

\* an earlier session has left the cache of the active listing
ActiveLeft ==
  /\ call.op = "init"
  /\ active = <<>>
  /\ active' = ActiveBuf(AddGroups(<<>>, ServerListing), 1)
  /\ UNCHANGED <<groups_list, fpVars, fp_newsrc, fileVars, updVars, mboxVars,
                 C_SaveUnsubscribed, lockVars, hc_index, hc_keys, bcache, cacheable,
                 newgroups_time, cachedir, call, pre>>

\* nntp_select_server, new news server: nntp_adata_new, nntp_open_connection
\* and the cache directory
SelectOpen ==
  /\ call.op = "init" \/ (call.op = "select_server" /\ call.rc < 0)
  /\ \E conn \in {"ok", "fail"}, C_NewsCacheDir \in BOOLEAN :
       /\ cacheable' = (conn = "ok" /\ C_NewsCacheDir)
       /\ call' = Called("open_connection", <<>>, IF conn = "ok" THEN 0 ELSE -1)
  /\ UNCHANGED <<groups_list, fpVars, fp_newsrc, fileVars, updVars, mboxVars,
                 C_SaveUnsubscribed, lockVars, hc_index, hc_keys, bcache,
                 newgroups_time, active, cachedir>>
  /\ pre' = Note

\* nntp_select_server: if (rc >= 0) rc = nntp_newsrc_parse(adata)
SelectParse ==
  /\ call = Called("open_connection", <<>>, 0)
  /\ Parse

\* nntp_select_server: the list of newsgroups, from the cache and
\* nntp_check_new_groups or from the server with nntp_active_fetch
SelectListing ==
  /\ call.op = "parse"
  /\ call.rc >= 0
  /\ \E io \in {"ok", "fail"} :
       /\ IF cacheable /\ active_get_cache(active).rc = 0
          THEN /\ groups_list' = AddGroups(groups_list, Tail(Lines(active)))
               /\ newgroups_time' = active_get_cache(active).time
               /\ UNCHANGED active
          ELSE IF io = "ok"
               THEN /\ groups_list' = AddGroups(groups_list, ServerListing)
                    /\ \E t \in 1 .. MaxTime :
                         /\ newgroups_time' = t
                         /\ active' = IF cacheable THEN ActiveBuf(groups_list', t)
                                      ELSE active
               ELSE UNCHANGED <<groups_list, newgroups_time, active>>
       /\ call' = Called("listing", <<>>, IF io = "ok" THEN 0 ELSE -1)
  /\ UNCHANGED <<fpVars, fp_newsrc, fileVars, updVars, mboxVars, C_SaveUnsubscribed,
                 lockVars, hc_index, hc_keys, bcache, cacheable, cachedir>>
  /\ pre' = Note

\* nntp_select_server: if (rc >= 0) nntp_clear_cache(adata)
SelectClear ==
  /\ call.op = "listing"
  /\ call.rc >= 0
  /\ nntp_clear_cache

\* rc of nntp_select_server at the test that decides about the lock
SelectRc == IF call.op = "clear_cache" THEN 0 ELSE -1

\* SelectReturn that closes the .newsrc only when leave_lock is false
SelectReturnKeeping(leave_lock) ==
  /\ \/ call.op = "clear_cache"
     \/ call.op \in {"open_connection", "parse", "listing"} /\ call.rc < 0
  /\ IF ~leave_lock
     THEN /\ fp_newsrc' = FALSE
          /\ lk' = [lk EXCEPT ![1] = NoHandle]
     ELSE UNCHANGED <<fp_newsrc, lk>>
  /\ IF SelectRc < 0
     THEN /\ groups_list' = <<>>
          /\ adata_size' = 0
          /\ adata_mtime' = 0
          /\ cacheable' = FALSE
          /\ newgroups_time' = 0
     ELSE /\ groups_list' = check_cache_files(groups_list)
          /\ UNCHANGED <<fpVars, cacheable, newgroups_time>>
  /\ call' = Called("select_server", <<>>, SelectRc)
  /\ UNCHANGED <<fileVars, updVars, mboxVars, C_SaveUnsubscribed, path_ino, hc_index,
                 hc_keys, bcache, active, cachedir>>
  /\ pre' = Note

\* nntp_select_server, the end: the cache files are checked, the .newsrc is
\* closed when rc < 0 or leave_lock is false, and when rc < 0 the account is
\* freed and NULL returned
SelectReturn(leave_lock) ==
  /\ \/ call.op = "clear_cache"
     \/ call.op \in {"open_connection", "parse", "listing"} /\ call.rc < 0
  /\ IF SelectRc < 0 \/ ~leave_lock
     THEN /\ fp_newsrc' = FALSE
          /\ lk' = [lk EXCEPT ![1] = NoHandle]
     ELSE UNCHANGED <<fp_newsrc, lk>>
  /\ IF SelectRc < 0
     THEN /\ groups_list' = <<>>
          /\ adata_size' = 0
          /\ adata_mtime' = 0
          /\ cacheable' = FALSE
          /\ newgroups_time' = 0
     ELSE /\ groups_list' = check_cache_files(groups_list)
          /\ UNCHANGED <<fpVars, cacheable, newgroups_time>>
  /\ call' = Called("select_server", <<>>, SelectRc)
  /\ UNCHANGED <<fileVars, updVars, mboxVars, C_SaveUnsubscribed, path_ino, hc_index,
                 hc_keys, bcache, active, cachedir>>
  /\ pre' = Note

SelectServer == \E leave_lock \in BOOLEAN : SelectReturn(leave_lock)

\* nntp_select_server for a new news server, step by step, with a second
\* client of the .newsrc and a cache directory that earlier sessions filled
NextSelect ==
  \/ ActiveLeft
  \/ SelectOpen
  \/ SelectParse
  \/ SelectListing
  \/ CacheArtifact
  \/ SelectClear
  \/ SelectServer
  \/ PeerParse
  \/ PeerClose

SpecSelect == InitPlain /\ [][NextSelect]_vars

\* The purge of one group: the caches are filled and trimmed as before, and
\* the group can be purged, on an account with a cache directory or without.
NextPurge ==
  \/ SelectCache
  \/ AddGroupCache
  \/ Subscribe
  \/ StoreHeader
  \/ StoreBody
  \/ HcacheUpdate
  \/ BcacheUpdate
  \/ DeleteGroupCache

SpecPurge == InitFile /\ [][NextPurge]_vars

InitCache ==
  /\ Init
  /\ newsrc = <<>>
  /\ ~C_SaveUnsubscribed
  /\ ~pre.on

NextCache ==
  \/ SelectCache
  \/ AddGroupCache
  \/ Subscribe
  \/ StoreHeader
  \/ StoreBody
  \/ HcacheUpdate
  \/ BcacheUpdate

SpecCache == InitCache /\ [][NextCache]_vars

-----------------------------------------------------------------------------
(* Properties *)

Max(a, b) == IF a >= b THEN a ELSE b
Min(a, b) == IF a <= b THEN a ELSE b

\* the number of articles of entry e inside the window [first, last]
ClampedLength(e, first, last) ==
  LET lo == Max(e.first, first)
      hi == Min(e.last, last)
  IN IF lo <= hi THEN hi - lo + 1 ELSE 0

RECURSIVE SumClamped(_, _, _)
SumClamped(ent, first, last) ==
  IF ent = <<>> THEN 0
  ELSE ClampedLength(Head(ent), first, last) + SumClamped(Tail(ent), first, last)

\* the span of the window, 0 when the group is empty
Span(mdata) ==
  IF mdata.last_message = 0 \/ mdata.first_message > mdata.last_message THEN 0
  ELSE mdata.last_message - mdata.first_message + 1

\* an integer as a value of anum_t
AsAnum(x) == ((x % AnumMod) + AnumMod) % AnumMod

\* C1: a valid range list written by nntp_newsrc_update and read back by
\* nntp_newsrc_parse is the same list: same entries, same order, nothing merged
C1_RoundTrip ==
  call.op = "parse" =>
    \A i \in 1 .. Len(pre.gl) :
      pre.gl[i].newsrc_ent # <<>> =>
        LET k == hash_find(groups_list, pre.gl[i].group)
        IN k # 0 /\ groups_list[k].newsrc_ent = pre.gl[i].newsrc_ent

\* C1 witness: two adjacent entries, [0,0] and [1,MaxNum], came back unmerged
C1_Witness ==
  /\ call.op = "parse"
  /\ \E i \in 1 .. Len(pre.gl) :
       /\ pre.gl[i].newsrc_ent = <<Ent(0, 0), Ent(1, MaxNum)>>
       /\ groups_list[hash_find(groups_list, pre.gl[i].group)].newsrc_ent
            = <<Ent(0, 0), Ent(1, MaxNum)>>

\* the articles are numbered from the first article of the group on
AllInWindow(es, first_message) ==
  \A k \in 1 .. Len(es) : es[k].article_num >= first_message

\* C2: after nntp_newsrc_gen_entries over articles in ascending order, all
\* numbered >= first_message, an article is inside some entry iff it is read or
\* deleted; articles 1..5 with read flags T,T,F,T,F give [[1,2],[4,4]]
C2_Synthesis ==
  call.op = "gen_entries" =>
    /\ AllInWindow(emails, pre.gl[1].first_message) =>
         \A k \in 1 .. Len(emails) :
           InNewsrc(groups_list[1], emails[k].article_num)
             <=> (emails[k].read \/ emails[k].deleted)
    /\ emails = GenExample => groups_list[1].newsrc_ent = <<Ent(1, 2), Ent(4, 4)>>

\* C2 witness: the synthesis ran over the five articles of the example
C2_Witness ==
  /\ call.op = "gen_entries"
  /\ emails = GenExample
  /\ groups_list[1].newsrc_ent = <<Ent(1, 2), Ent(4, 4)>>

\* C7: nntp_group_unread_stat sets unread to the span minus the clamped lengths
\* of the entries (in anum_t arithmetic), to 0 for an empty window; bounds
\* [1,10] with ranges [[1,3],[5,7]] give 4
C7_UnreadStat ==
  call.op = "unread_stat" =>
    LET g == pre.gl[1]
    IN /\ groups_list[1].unread =
            IF g.last_message = 0 \/ g.first_message > g.last_message THEN 0
            ELSE AsAnum(g.last_message - g.first_message + 1
                        - SumClamped(g.newsrc_ent, g.first_message, g.last_message))
       /\ groups_list[1] = [g EXCEPT !.unread = groups_list[1].unread]
       /\ g = StatExample => groups_list[1].unread = 4

\* C7 witness: the count was taken for bounds [1,10] and ranges [[1,3],[5,7]]
C7_Witness ==
  /\ call.op = "unread_stat"
  /\ pre.gl[1] = StatExample
  /\ groups_list[1].unread = 4

\* C8: whatever the range list, nntp_group_unread_stat leaves unread between 0
\* and the span of the window
C8_UnreadWithinSpan ==
  call.op = "unread_stat" =>
    groups_list[1].unread >= 0 /\ groups_list[1].unread <= Span(groups_list[1])


\* the parts of a .newsrc line: the name before the first ':' or '!', the
\* marker, and the ranges the text after it gives
LineMarker(line) == FirstOf(line, {":", "!"})
LineName(line) == SubSeq(line, 1, LineMarker(line) - 1)
LineRanges(line) ==
  LET r == ParseEntries(Drop(line, LineMarker(line) + 1))
  IN IF r = <<>> THEN <<Ent(1, 0)>> ELSE r

\* the lines of text that name the group
NamingLines(text, name) ==
  LET Naming(line) == LineMarker(line) # 0 /\ LineName(line) = name
  IN SelectSeq(Lines(text), Naming)

\* the registry after holds what text says: a group named by no line is
\* unsubscribed and without ranges, a named group has the marker and the ranges
\* of the (last) line that names it
HoldsFile(before, after, text) ==
  /\ Len(after) >= Len(before)
  /\ \A i \in 1 .. Len(before) : after[i].group = before[i].group
  /\ \A k \in 1 .. Len(Lines(text)) :
       LineMarker(Lines(text)[k]) # 0 => hash_find(after, LineName(Lines(text)[k])) # 0
  /\ \A i \in 1 .. Len(after) :
       LET ls == NamingLines(text, after[i].group)
       IN IF ls = <<>>
          THEN ~after[i].subscribed /\ after[i].newsrc_ent = <<>>
          ELSE /\ after[i].subscribed = (ls[Len(ls)][LineMarker(ls[Len(ls)])] = ":")
               /\ after[i].newsrc_ent = LineRanges(ls[Len(ls)])

FingerprintSame == adata_size = Len(newsrc) /\ adata_mtime = newsrc_mtime

\* C3: nntp_newsrc_parse on a file whose (size, mtime) is the recorded
\* fingerprint returns 0 and leaves every group as it was
C3_ParseUnchanged ==
  [][(nntp_newsrc_parse("ok") /\ FingerprintSame)
       => (call'.op = "parse" /\ call'.rc = 0 /\ groups_list' = groups_list)]_vars

\* C3 witness: parse returned 0 although group "a" was caught up in memory
\* ([1,3]) and the file still gives it 1-2,3
C3_Witness ==
  /\ call.op = "parse"
  /\ call.rc = 0
  /\ FingerprintSame
  /\ hash_find(groups_list, <<"a">>) # 0
  /\ groups_list[hash_find(groups_list, <<"a">>)].newsrc_ent = <<Ent(1, 3)>>
  /\ NamingLines(newsrc, <<"a">>) # <<>>
  /\ LineRanges(NamingLines(newsrc, <<"a">>)[1]) = <<Ent(1, 2), Ent(3, 3)>>

\* C4: nntp_newsrc_parse on a changed file leaves every group that no line
\* names unsubscribed and without ranges, and gives every named group the
\* marker and the ranges of its line
C4_ParseChanged ==
  [][(nntp_newsrc_parse("ok") /\ ~FingerprintSame)
       => (call'.rc = 1 /\ HoldsFile(groups_list, groups_list', newsrc))]_vars

\* C4 witness: after a reparse, group "a" (known from an earlier file, which
\* set its last_message to 3) is named by no line and is reset, "b" is named
C4_Witness ==
  /\ call.op = "parse"
  /\ call.rc = 1
  /\ FingerprintSame
  /\ NamingLines(newsrc, <<"a">>) = <<>>
  /\ NamingLines(newsrc, <<"b">>) # <<>>
  /\ \E i \in 1 .. Len(groups_list) :
       /\ groups_list[i].group = <<"a">>
       /\ groups_list[i].first_message = 0
       /\ groups_list[i].last_message = 3
       /\ ~groups_list[i].subscribed
       /\ groups_list[i].newsrc_ent = <<>>
  /\ HoldsFile(groups_list, groups_list, newsrc)

UpdateFileFailed ==
  Idle /\ call.op \in {"update_file", "update_file_fopen"} /\ call.rc = -1

\* C5: when update_file fails, the target is what it was, the temporary file
\* does not exist, and failure is reported
C5_FailureLeavesNoTmp ==
  UpdateFileFailed => (newsrc = upd_old /\ ~tmpfile.exists)

\* C5 as amended: when update_file fails, the target is what it was and the
\* temporary file is removed, except when the temporary file could not be
\* opened: then whatever was at the temporary path is left as it was
C5_FailureAmended ==
  /\ [](UpdateFileFailed =>
          (newsrc = upd_old /\ (call.op = "update_file" => ~tmpfile.exists)))
  /\ [][(upd_pc = "fopen" /\ upd_pc' = "idle")
          => (tmpfile' = tmpfile /\ newsrc' = newsrc /\ call'.rc = -1)]_vars

\* C5 witness: update_file failed after it had created the temporary file; the
\* file is gone and the target still differs from the new content
C5_Witness ==
  /\ UpdateFileFailed
  /\ call.op = "update_file"
  /\ ~tmpfile.exists
  /\ newsrc = upd_old
  /\ newsrc # upd_buf

\* C6: during a rewrite the target holds the complete previous content or the
\* complete new content, and the only step that changes it is the rename
C6_AtomicRewrite ==
  /\ [](upd_pc # "idle" => newsrc \in {upd_old, upd_buf})
  /\ [][upd_pc' # upd_pc
          => (newsrc' = newsrc \/ (upd_pc = "rename" /\ newsrc' = upd_buf))]_vars

\* C6 witness: the temporary file holds a proper, non-empty prefix of the new
\* content while the target still holds the previous content
C6_Witness ==
  /\ upd_pc = "fclose"
  /\ tmpfile.exists
  /\ tmpfile.data # <<>>
  /\ tmpfile.data # upd_buf
  /\ newsrc = upd_old
  /\ newsrc # upd_buf

\* C9: in every state each group's unread is what nntp_group_unread_stat
\* computes from its range list and bounds
C9_UnreadCached ==
  \A i \in 1 .. Len(groups_list) :
    groups_list[i].unread = nntp_group_unread_stat(groups_list[i]).unread

\* uncatchup of the group at index i directly after its catchup
UncatchupAfterCatchup(i) ==
  /\ call.op = "uncatchup"
  /\ call.rc = 1
  /\ pre.call.op = "catchup"
  /\ pre.call.rc = 1
  /\ pre.call.group = call.group
  /\ groups_list[i].group = call.group

\* C10: catchup then uncatchup of a known group whose first_message is 1 leaves
\* the single sentinel [1,0]
C10_CatchupUncatchup ==
  \A i \in 1 .. Len(groups_list) :
    (UncatchupAfterCatchup(i) /\ groups_list[i].first_message = 1)
      => groups_list[i].newsrc_ent = <<Ent(1, 0)>>

\* C10 as amended: it leaves the sentinel [1,0] when the group has range
\* state; a group without range state is left without range state
C10_Amended ==
  \A i \in 1 .. Len(groups_list) :
    (UncatchupAfterCatchup(i) /\ groups_list[i].first_message = 1)
      => groups_list[i].newsrc_ent =
           IF pre.gl[i].newsrc_ent # <<>> THEN <<Ent(1, 0)>> ELSE <<>>

\* C10 witness: group "a" with bounds [1,3] and range state was caught up
\* ([1,3]) and then uncaught: its ranges are the sentinel
C10_Witness ==
  /\ Len(groups_list) >= 1
  /\ UncatchupAfterCatchup(1)
  /\ groups_list[1].first_message = 1
  /\ groups_list[1].last_message = 3
  /\ pre.gl[1].newsrc_ent = <<Ent(1, 3)>>
  /\ groups_list[1].newsrc_ent = <<Ent(1, 0)>>

\* the group at index i is the one the last call, a successful op, was given
LastCallOn(op, i) ==
  /\ call.op = op
  /\ call.rc = 1
  /\ groups_list[i].group = call.group

\* C11: mutt_newsgroup_uncatchup leaves a group that has range state with the
\* single entry [1, first_message - 1], and for first_message <= 1 (0 included)
\* that entry is empty, so that no article number counts as read
C11_UncatchupEmpty ==
  \A i \in 1 .. Len(groups_list) :
    (LastCallOn("uncatchup", i) /\ groups_list[i].newsrc_ent # <<>>)
      => /\ groups_list[i].newsrc_ent = <<Ent(1, USub(groups_list[i].first_message, 1))>>
         /\ groups_list[i].first_message <= 1
              => /\ groups_list[i].newsrc_ent[1].first > groups_list[i].newsrc_ent[1].last
                 /\ \A anum \in Anum : ~InNewsrc(groups_list[i], anum)

\* C12: after mutt_newsgroup_catchup of a known group its ranges are the
\* single entry [1, last_message] and its unread count is 0
C12_CatchupRanges ==
  \A i \in 1 .. Len(groups_list) :
    LastCallOn("catchup", i)
      => /\ groups_list[i].newsrc_ent = <<Ent(1, groups_list[i].last_message)>>
         /\ groups_list[i].unread = 0

\* C12 as amended: the ranges become [1, last_message] when the group had
\* range state and stay absent when it had none; unread is 0 in both cases
C12_Amended ==
  \A i \in 1 .. Len(groups_list) :
    LastCallOn("catchup", i)
      => /\ groups_list[i].newsrc_ent =
              IF pre.gl[i].newsrc_ent # <<>>
              THEN <<Ent(1, groups_list[i].last_message)>> ELSE <<>>
         /\ groups_list[i].unread = 0

\* C12 witness: group "a" with bounds [3,3], subscribed with nothing read, was
\* caught up: its ranges are [1,3] and nothing is unread
C12_Witness ==
  /\ Len(groups_list) >= 1
  /\ LastCallOn("catchup", 1)
  /\ groups_list[1].first_message = MaxNum
  /\ groups_list[1].last_message = MaxNum
  /\ pre.gl[1].newsrc_ent = <<Ent(1, 0)>>
  /\ pre.gl[1].unread = 1
  /\ groups_list[1].newsrc_ent = <<Ent(1, MaxNum)>>
  /\ groups_list[1].unread = 0

\* the number of loaded articles whose read flag is not set
NotRead(es) == Cardinality({k \in 1 .. Len(es) : ~es[k].read})

\* C13: catchup (uncatchup) of the group that is the open mailbox sets (clears)
\* the read flag of every loaded article, and the group's unread count is then
\* the number of loaded articles that are not read
C13_OpenGroupFlags ==
  \A i \in 1 .. Len(groups_list) :
    /\ (LastCallOn("catchup", i) /\ m_mdata = i)
         => /\ \A k \in 1 .. Len(emails) : emails[k].read
            /\ groups_list[i].unread = NotRead(emails)
    /\ (LastCallOn("uncatchup", i) /\ m_mdata = i)
         => /\ \A k \in 1 .. Len(emails) : ~emails[k].read
            /\ groups_list[i].unread = NotRead(emails)

\* C13 witness: the open group "a" (window [1,MaxNum], subscribed) with two
\* loaded articles, one of them deleted, was uncaught: both are unread and the
\* count is 2, not the MaxNum that the bounds give
C13_Witness ==
  /\ Len(groups_list) >= 1
  /\ m_mdata = 1
  /\ LastCallOn("uncatchup", 1)
  /\ groups_list[1].newsrc_ent = <<Ent(1, 0)>>
  /\ groups_list[1].last_message = MaxNum
  /\ Len(emails) = 2
  /\ emails[1].deleted
  /\ ~emails[1].read /\ ~emails[2].read
  /\ groups_list[1].unread = 2

\* the groups nntp_mailbox may answer with: subscribed, cached unread above 0,
\* and not the open group with every loaded article read or deleted
Eligible ==
  {i \in 1 .. Len(groups_list) :
     /\ groups_list[i].subscribed
     /\ groups_list[i].unread > 0
     /\ ~(i = m_mdata /\ \A k \in 1 .. Len(emails) : emails[k].read \/ emails[k].deleted)}

\* C14: nntp_mailbox answers with the first group, in registry order, that is
\* subscribed and has a cached unread count above 0, passing over the caller's
\* open group when none of its loaded articles is unread and undeleted; the
\* groups after it are still considered
C14_NextUnread ==
  call.op = "mailbox"
    => IF Eligible = {}
       THEN call.rc = 0 /\ call.group = <<>>
       ELSE /\ call.rc \in Eligible
            /\ \A i \in Eligible : call.rc <= i
            /\ call.group = groups_list[call.rc].group

\* C14 witness: the open group, first in the registry, is subscribed with a
\* stale unread count above 0 while its loaded articles are all read or
\* deleted; nntp_mailbox answers with the second group
C14_Witness ==
  /\ call.op = "mailbox"
  /\ Len(groups_list) = 2
  /\ m_mdata = 1
  /\ groups_list[1].subscribed /\ groups_list[1].unread > 0
  /\ Len(emails) > 0
  /\ \A k \in 1 .. Len(emails) : emails[k].read \/ emails[k].deleted
  /\ groups_list[2].subscribed /\ groups_list[2].unread > 0
  /\ call.rc = 2

\* the keys of a cache that are the number of an article inside the window
KeysInWindow(keys, mdata) ==
  {key \in keys : \E n \in Anum : /\ key = FmtU(n)
                                  /\ n >= mdata.first_message
                                  /\ n <= mdata.last_message}

\* C15: trimming the caches of a group (nntp_hcache_update for the headers,
\* nntp_bcache_update for the bodies) leaves exactly the entries whose key is
\* an article number inside [first_message, last_message]
C15_TrimWindow ==
  [][\A i \in 1 .. Len(groups_list') :
       groups_list'[i].group = CacheGroup
         => /\ (call'.op = "hcache_update" /\ call'.rc = 1)
                 => hc_keys' = KeysInWindow(hc_keys, groups_list'[i])
            /\ call'.op = "bcache_update"
                 => bcache' = KeysInWindow(bcache, groups_list'[i])]_vars

\* the groups of the registry that have range state, in registry order
Persisted(gl) == SelectSeq(gl, LAMBDA g : g.newsrc_ent # <<>>)

StartsWith(line, name) ==
  Len(line) >= Len(name) /\ SubSeq(line, 1, Len(name)) = name

\* C16: the text nntp_newsrc_update generates has exactly one line for every
\* group of the registry that has range state, none for a group without, and
\* the lines follow the order of the registry
C16_OneLinePerGroup ==
  call.op = "update" =>
    LET written == Lines(newsrc)
        kept    == Persisted(groups_list)
    IN /\ Len(written) = Len(kept)
       /\ \A k \in 1 .. Len(kept) :
            /\ StartsWith(written[k], kept[k].group)
            /\ Len(written[k]) > Len(kept[k].group) + 1
            /\ written[k][Len(kept[k].group) + 1] \in {":", "!"}
            /\ written[k][Len(written[k])] = "\n"

\* C16 witness: "b" without range state stands before "a" in the registry and
\* the text written is the line of "a" alone
C16_Witness ==
  /\ call.op = "update"
  /\ Len(groups_list) = 2
  /\ groups_list[1].group = <<"b">>
  /\ groups_list[1].newsrc_ent = <<>>
  /\ groups_list[2].newsrc_ent # <<>>
  /\ Len(Lines(newsrc)) = 1
  /\ StartsWith(Lines(newsrc)[1], groups_list[2].group)

\* C16 witness of the order: both groups have range state, "b" first
C16_WitnessOrder ==
  /\ call.op = "update"
  /\ Len(Lines(newsrc)) = 2
  /\ StartsWith(Lines(newsrc)[1], <<"b">>)
  /\ StartsWith(Lines(newsrc)[2], <<"a">>)

\* the parts of s between the occurrences of the character c
RECURSIVE SplitOn(_, _)
SplitOn(s, c) ==
  LET n == FirstOf(s, {c})
  IN IF n = 0 THEN <<s>> ELSE <<SubSeq(s, 1, n - 1)>> \o SplitOn(Drop(s, n + 1), c)

\* the grammar of a range: one unsigned integer, or two joined by '-'
IsNumber(t) == t # <<>> /\ \A i \in 1 .. Len(t) : t[i] \in DigitSet
IsRange(t) ==
  \/ IsNumber(t)
  \/ \E d \in 1 .. Len(t) :
       t[d] = "-" /\ IsNumber(SubSeq(t, 1, d - 1)) /\ IsNumber(Drop(t, d + 1))

\* the text of a line between "name marker SP" and the newline, split at ',';
\* m is the position of the marker
LineTokens(line, m) == SplitOn(SubSeq(line, m + 2, Len(line) - 1), ",")

\* group-name (':' | '!') SP range (',' range)*, the marker at position m
ConformsAt(line, m) ==
  /\ line[m] \in {":", "!"}
  /\ Len(line) >= m + 2
  /\ line[m + 1] = " "
  /\ line[Len(line)] = "\n"
  /\ \A j \in 1 .. Len(LineTokens(line, m)) : IsRange(LineTokens(line, m)[j])

Conforms(line) == \E m \in 1 .. Len(line) : ConformsAt(line, m)

\* C17 as stated: every line nntp_newsrc_update writes conforms to the
\* grammar, with at least one range and no empty token, whatever the range list
C17_Grammar ==
  call.op = "update" => \A k \in 1 .. Len(Lines(newsrc)) : Conforms(Lines(newsrc)[k])

HasEmptyInterval(ent) == \E j \in 1 .. Len(ent) : ent[j].first > ent[j].last

\* C17 amended: a written line is the name, the marker, a space and one token
\* per entry of the range list; the token of an entry with first <= last is a
\* range, the token of an entry with first > last is empty, so the line conforms
\* to the grammar exactly when the list has no entry with first > last
C17_Amended ==
  call.op = "update" =>
    LET written == Lines(newsrc)
        kept    == Persisted(groups_list)
    IN /\ Len(written) = Len(kept)
       /\ \A k \in 1 .. Len(kept) :
            LET line == written[k]
                ent  == kept[k].newsrc_ent
                m    == Len(kept[k].group) + 1
                tok  == LineTokens(line, m)
            IN /\ StartsWith(line, kept[k].group)
               /\ Len(line) >= m + 2
               /\ line[m] \in {":", "!"}
               /\ line[m + 1] = " "
               /\ line[Len(line)] = "\n"
               /\ Len(tok) = Len(ent)
               /\ \A j \in 1 .. Len(ent) :
                    IF ent[j].first > ent[j].last THEN tok[j] = <<>> ELSE IsRange(tok[j])
               /\ Conforms(line) <=> ~HasEmptyInterval(ent)

\* C17 witness: the list [1,0],[MaxNum,MaxNum] was written with an empty first
\* token, and a second group's list of two ranges as a conforming line
C17_Witness ==
  /\ call.op = "update"
  /\ Len(groups_list) = 2
  /\ groups_list[1].newsrc_ent = <<Ent(1, 0), Ent(MaxNum, MaxNum)>>
  /\ LineTokens(Lines(newsrc)[1], Len(groups_list[1].group) + 1) = << <<>>, FmtU(MaxNum) >>
  /\ groups_list[2].newsrc_ent = <<Ent(MaxNum, MaxNum), Ent(1, MaxNum)>>
  /\ Conforms(Lines(newsrc)[2])

\* the marker nntp_newsrc_update wrote for the k-th group with range state
WrittenMarker(k) == Lines(newsrc)[k][Len(Persisted(groups_list)[k].group) + 1]

\* the groups written by the update come back with the subscribed flag they had
FlagsRestored(names) ==
  \A i \in 1 .. Len(pre.gl) :
    (pre.gl[i].newsrc_ent # <<>> /\ pre.gl[i].group \in names) =>
      LET k == hash_find(groups_list, pre.gl[i].group)
      IN k # 0 /\ groups_list[k].subscribed = pre.gl[i].subscribed

MarkerWritten ==
  \A k \in 1 .. Len(Persisted(groups_list)) :
    WrittenMarker(k) = IF Persisted(groups_list)[k].subscribed THEN ":" ELSE "!"

\* C18 as stated: nntp_newsrc_update writes ':' for a subscribed group and '!'
\* otherwise, and the parse of the text written gives every group that was
\* written the subscribed flag it had
C18_MarkerRoundTrip ==
  /\ call.op = "update" => MarkerWritten
  /\ call.op = "parse" => FlagsRestored({pre.gl[i].group : i \in 1 .. Len(pre.gl)})

\* names without a marker character
PlainName(name) == \A i \in 1 .. Len(name) : name[i] \notin {":", "!"}

\* C18 for plain names: the marker written is ':' for a subscribed group and
\* '!' otherwise, and the parse of the text written gives every written group
\* whose name holds neither ':' nor '!' the subscribed flag it had
C18_PlainNames ==
  /\ call.op = "update" => MarkerWritten
  /\ call.op = "parse" =>
       FlagsRestored({name \in {pre.gl[i].group : i \in 1 .. Len(pre.gl)} : PlainName(name)})

\* C18 for plain names, reached: a subscribed "a" and an unsubscribed "b", both with range
\* state, were written and read back with their flags
C18_PlainReached ==
  /\ call.op = "parse"
  /\ Len(pre.gl) = 2
  /\ pre.gl[1].group = <<"a">> /\ pre.gl[1].subscribed /\ pre.gl[1].newsrc_ent # <<>>
  /\ pre.gl[2].group = <<"b">> /\ ~pre.gl[2].subscribed /\ pre.gl[2].newsrc_ent # <<>>
  /\ groups_list[hash_find(groups_list, <<"a">>)].subscribed
  /\ ~groups_list[hash_find(groups_list, <<"b">>)].subscribed

\* the text without its lines that hold neither ':' nor '!'
WithoutUnmarked(text) ==
  Flatten(SelectSeq(Lines(text), LAMBDA line : LineMarker(line) # 0))

HasUnmarked(text) == \E k \in 1 .. Len(Lines(text)) : LineMarker(Lines(text)[k]) = 0

GroupNames(gl) == {gl[i].group : i \in 1 .. Len(gl)}

\* C19: a line with neither ':' nor '!' is skipped: nntp_newsrc_parse returns 1
\* (Updated), the groups are those known before and those named by the lines
\* with a marker, and the registry is what the parse of the file without the
\* unmarked lines gives
C19_UnmarkedSkipped ==
  (call.op = "parse" /\ HasUnmarked(newsrc)) =>
    /\ call.rc = 1
    /\ GroupNames(groups_list) =
         GroupNames(pre.gl) \cup
           {LineName(Lines(newsrc)[k]) :
              k \in {n \in 1 .. Len(Lines(newsrc)) : LineMarker(Lines(newsrc)[n]) # 0}}
    /\ groups_list = Reparse(pre.gl, WithoutUnmarked(newsrc))

\* C19 witness: an unmarked line stood between the lines of "a" and "b", and
\* both groups were read
C19_Witness ==
  /\ call.op = "parse"
  /\ call.rc = 1
  /\ Len(Lines(newsrc)) = 3
  /\ LineMarker(Lines(newsrc)[1]) # 0 /\ LineName(Lines(newsrc)[1]) = <<"a">>
  /\ LineMarker(Lines(newsrc)[2]) = 0
  /\ LineMarker(Lines(newsrc)[3]) # 0 /\ LineName(Lines(newsrc)[3]) = <<"b">>
  /\ GroupNames(groups_list) = {<<"a">>, <<"b">>}
  /\ groups_list[hash_find(groups_list, <<"b">>)].newsrc_ent = <<Ent(2, 2)>>

\* the entry of a token that is one unsigned integer or two joined by '-',
\* nothing for any other token
StrictEntry(tok) ==
  LET d == FirstOf(tok, {"-"})
  IN IF IsNumber(tok) THEN <<Ent(DigitsValue(tok, 0), DigitsValue(tok, 0))>>
     ELSE IF IsRange(tok)
          THEN <<Ent(DigitsValue(SubSeq(tok, 1, d - 1), 0), DigitsValue(Drop(tok, d + 1), 0))>>
          ELSE <<>>

RECURSIVE StrictEntries(_)
StrictEntries(toks) ==
  IF toks = <<>> THEN <<>> ELSE StrictEntry(Head(toks)) \o StrictEntries(Tail(toks))

\* the last line of the file that names the group
LastNaming(name) == NamingLines(newsrc, name)[Len(NamingLines(newsrc, name))]

\* the range list of the group is the one the well-formed tokens of its line
\* give, [1,0] when there is none
StrictlyParsed(name) ==
  LET toks   == LineTokens(LastNaming(name), LineMarker(LastNaming(name)))
      strict == StrictEntries(toks)
      k      == hash_find(groups_list, name)
  IN /\ k # 0
     /\ groups_list[k].newsrc_ent = IF strict = <<>> THEN <<Ent(1, 0)>> ELSE strict

NamedGroups ==
  {LineName(Lines(newsrc)[k]) :
     k \in {n \in 1 .. Len(Lines(newsrc)) : LineMarker(Lines(newsrc)[n]) # 0}}

\* C20: of the range tokens of a line, each one that is not one unsigned
\* integer or two unsigned integers joined by '-' is dropped and the others are
\* kept in their order; with no such token the group has exactly [1,0]
C20_DropInvalid ==
  call.op = "parse" => \A name \in NamedGroups : StrictlyParsed(name)

\* the tokens of the group's line are well formed or hold no digit at all
NoStrayDigits(name) ==
  LET toks == LineTokens(LastNaming(name), LineMarker(LastNaming(name)))
  IN \A j \in 1 .. Len(toks) :
       IsRange(toks[j]) \/ \A i \in 1 .. Len(toks[j]) : toks[j][i] \notin DigitSet

\* C20 for lines without stray digits: tokens without a digit are dropped, the
\* well-formed ones are kept in their order, [1,0] when there is none
C20_WithoutStrayDigits ==
  call.op = "parse" =>
    \A name \in NamedGroups : NoStrayDigits(name) => StrictlyParsed(name)

\* C20 for lines without stray digits, reached: "a: ,1-3" gave [1,3]
C20_StrictReached ==
  /\ call.op = "parse"
  /\ newsrc = <<"a", ":", " ", ",", "1", "-", "3", "\n">>
  /\ groups_list[hash_find(groups_list, <<"a">>)].newsrc_ent = <<Ent(1, 3)>>

\* the bounds of the group as the registry gl holds them, (0,0) when unknown
BoundsIn(gl, name) ==
  IF hash_find(gl, name) = 0 THEN <<0, 0>>
  ELSE <<gl[hash_find(gl, name)].first_message, gl[hash_find(gl, name)].last_message>>

\* last_message after the lines k.. that name the group: a line sets it to the
\* last number of its final range only while it is 0
RECURSIVE LastAfterLines(_, _, _)
LastAfterLines(lines, k, last) ==
  IF k > Len(lines) THEN last
  ELSE LastAfterLines(lines, k + 1,
         IF last = 0 THEN LineRanges(lines[k])[Len(LineRanges(lines[k]))].last ELSE last)

\* C21: a parsed line gives a group whose last_message is 0 the last number of
\* its final range; a group whose last_message is not 0 keeps it; first_message
\* is never changed by the parse
C21_LastFromRanges ==
  call.op = "parse" =>
    \A name \in NamedGroups :
      /\ BoundsIn(groups_list, name)[1] = BoundsIn(pre.gl, name)[1]
      /\ BoundsIn(groups_list, name)[2] =
           LastAfterLines(NamingLines(newsrc, name), 1, BoundsIn(pre.gl, name)[2])

\* C21 witness: "b" was known with last_message = MaxNum and kept it when its
\* line "b! 2" was parsed; "a" was unknown and got 3 from "a: 1-2,3"
C21_Witness ==
  /\ call.op = "parse"
  /\ newsrc = <<"a", ":", " ", "1", "-", "2", ",", "3", "\n", "b", "!", " ", "2", "\n">>
  /\ BoundsIn(pre.gl, <<"b">>) = <<0, MaxNum>>
  /\ BoundsIn(groups_list, <<"b">>) = <<0, MaxNum>>
  /\ groups_list[hash_find(groups_list, <<"b">>)].newsrc_ent = <<Ent(2, 2)>>
  /\ BoundsIn(pre.gl, <<"a">>) = <<0, 0>>
  /\ BoundsIn(groups_list, <<"a">>) = <<0, 3>>

\* the RangeSet invariant of a range list: ascending by first, no article in
\* two entries
SortedByFirst(ent) ==
  \A i \in 1 .. Len(ent) : \A j \in i + 1 .. Len(ent) : ent[i].first <= ent[j].first

Disjoint(ent) ==
  \A i \in 1 .. Len(ent) : \A j \in i + 1 .. Len(ent) :
    ~\E n \in Anum : /\ ent[i].first <= n /\ n <= ent[i].last
                      /\ ent[j].first <= n /\ n <= ent[j].last

\* C22: in every reachable state the range list of every group is sorted
\* ascending by first and its entries are mutually disjoint
C22_SortedDisjoint ==
  \A i \in 1 .. Len(groups_list) :
    SortedByFirst(groups_list[i].newsrc_ent) /\ Disjoint(groups_list[i].newsrc_ent)

\* C22 for the synthesis: the list nntp_newsrc_gen_entries builds is sorted and
\* its entries are disjoint
C22_SynthesisSorted ==
  call.op = "gen_entries" => C22_SortedDisjoint

\* C22 for the synthesis, reached: read blocks [1,1] and [3,3] around the
\* unread article 2
C22_SynthesisReached ==
  /\ call.op = "gen_entries"
  /\ groups_list[1].newsrc_ent = <<Ent(1, 1), Ent(3, 3)>>

\* the article counts as read for the synthesis
CountsRead(e) == e.read \/ e.deleted

\* after the first n articles the scan is inside a read block: it starts in
\* one, a read or deleted article opens or continues one, an unread article
\* below first_message does not end one
RECURSIVE InReadBlock(_, _, _)
InReadBlock(es, n, first_message) ==
  \/ n = 0
  \/ CountsRead(es[n])
  \/ es[n].article_num < first_message /\ InReadBlock(es, n - 1, first_message)

\* the first article number of the read block the scan is in after n articles
RECURSIVE BlockFirst(_, _, _)
BlockFirst(es, n, first_message) ==
  IF n = 0 THEN 1
  ELSE IF InReadBlock(es, n - 1, first_message) THEN BlockFirst(es, n - 1, first_message)
  ELSE es[n - 1].article_num + 1

\* the list ends with the entry [first, last_loaded]
TrailingEntry(mdata, first) ==
  /\ mdata.newsrc_ent # <<>>
  /\ mdata.newsrc_ent[Len(mdata.newsrc_ent)] = Ent(first, mdata.last_loaded)

TrailingRule ==
  LET mdata == groups_list[1]
      first == BlockFirst(emails, Len(emails), mdata.first_message)
  IN TrailingEntry(mdata, first)
       <=> /\ InReadBlock(emails, Len(emails), mdata.first_message)
           /\ first <= mdata.last_loaded

NothingAbove(e) == \A n \in Anum : n > e.article_num => ~InNewsrc(groups_list[1], n)

\* C23 as stated: nntp_newsrc_gen_entries ends the list with [first,
\* last_loaded] exactly when the scan ended inside a read block and first <=
\* last_loaded; when the last loaded article is unread (neither read nor
\* deleted), no entry covers an article number above it
C23_TrailingInterval ==
  call.op = "gen_entries" =>
    /\ TrailingRule
    /\ (emails # <<>> /\ ~CountsRead(emails[Len(emails)]))
         => NothingAbove(emails[Len(emails)])

\* C23 amended: the same, the second part for a last loaded article that is
\* unread and not numbered below first_message
C23_Amended ==
  call.op = "gen_entries" =>
    /\ TrailingRule
    /\ (/\ emails # <<>>
        /\ ~CountsRead(emails[Len(emails)])
        /\ emails[Len(emails)].article_num >= groups_list[1].first_message)
         => NothingAbove(emails[Len(emails)])

\* C23 witness: article 1 read, article 2 unread, last_loaded = MaxNum: the
\* list is [1,1], nothing above 2 is covered; and a scan that ends in a read
\* block is reached in C23_WitnessTrailing
C23_Witness ==
  /\ call.op = "gen_entries"
  /\ emails = <<Email(1, TRUE, FALSE), Email(2, FALSE, FALSE)>>
  /\ groups_list[1].first_message = 1
  /\ groups_list[1].last_loaded = MaxNum
  /\ groups_list[1].newsrc_ent = <<Ent(1, 1)>>

\* C23 witness of the trailing entry: article 1 unread, article 2 read,
\* last_loaded = MaxNum: the list is [1,0],[2,MaxNum]
C23_WitnessTrailing ==
  /\ call.op = "gen_entries"
  /\ emails = <<Email(1, FALSE, FALSE), Email(2, TRUE, FALSE)>>
  /\ groups_list[1].first_message = 1
  /\ groups_list[1].last_loaded = MaxNum
  /\ groups_list[1].newsrc_ent = <<Ent(1, 0), Ent(2, MaxNum)>>

\* range lists the group may have held before the synthesis: none, any single
\* entry, and a list of two
PreviousLists == SeqsUpTo(Ents, 1) \cup {<<Ent(1, 1), Ent(MaxNum, AnumMax)>>}

\* C24: the list nntp_newsrc_gen_entries builds is the same whatever range
\* list the group had before: it depends on the articles, first_message and
\* last_loaded only
C24_PreviousListIgnored ==
  call.op = "gen_entries" =>
    \A old \in PreviousLists :
      nntp_newsrc_gen_entries([pre.gl[1] EXCEPT !.newsrc_ent = old], emails).newsrc_ent
        = groups_list[1].newsrc_ent

\* C24 witness: the group held [1,MaxNum]; with article 1 loaded and unread
\* the synthesis left [1,0] alone
C24_Witness ==
  /\ call.op = "gen_entries"
  /\ pre.gl[1].newsrc_ent = <<Ent(1, MaxNum)>>
  /\ emails = <<Email(1, FALSE, FALSE)>>
  /\ groups_list[1].newsrc_ent = <<Ent(1, 0)>>

\* every group of the registry before the call, but the one at index k, is as
\* it was and where it was
OthersUnchanged(k) ==
  /\ Len(groups_list) >= Len(pre.gl)
  /\ \A j \in 1 .. Len(pre.gl) : j # k => groups_list[j] = pre.gl[j]

\* C25: mutt_newsgroup_subscribe creates the group when it is unknown, sets
\* subscribed, gives the group [1,0] only when it has no range list, and leaves
\* an existing range list, the bounds and every other group as they were
C25_SubscribeFrame ==
  call.op = "subscribe" =>
    LET k   == hash_find(groups_list, call.group)
        old == hash_find(pre.gl, call.group)
        was == IF old = 0 THEN NewGroup(call.group) ELSE pre.gl[old]
    IN /\ k # 0
       /\ IF old = 0 THEN k = Len(pre.gl) + 1 /\ Len(groups_list) = k
          ELSE k = old /\ Len(groups_list) = Len(pre.gl)
       /\ groups_list[k].subscribed
       /\ groups_list[k].newsrc_ent =
            IF was.newsrc_ent = <<>> THEN <<Ent(1, 0)>> ELSE was.newsrc_ent
       /\ groups_list[k] = [was EXCEPT !.subscribed = TRUE,
                                       !.newsrc_ent = groups_list[k].newsrc_ent]
       /\ OthersUnchanged(k)

\* C25 witness: "a" held [1,2],[3,3] and bounds from the active listing and
\* was unsubscribed; subscribed again it holds the same list and bounds, next
\* to a second group
C25_Witness ==
  /\ call.op = "subscribe"
  /\ call.group = <<"a">>
  /\ Len(pre.gl) = 2
  /\ LET k == hash_find(pre.gl, <<"a">>)
     IN /\ k # 0
        /\ ~pre.gl[k].subscribed
        /\ pre.gl[k].newsrc_ent = <<Ent(1, 2), Ent(3, 3)>>
        /\ pre.gl[k].first_message = 1
        /\ groups_list[k].subscribed
        /\ groups_list[k].newsrc_ent = <<Ent(1, 2), Ent(3, 3)>>
        /\ groups_list[k].first_message = 1

\* C25 witness of the creation: the unknown group was appended with [1,0]
C25_WitnessCreated ==
  /\ call.op = "subscribe"
  /\ hash_find(pre.gl, call.group) = 0
  /\ Len(pre.gl) = 1
  /\ groups_list[2] = [NewGroup(call.group) EXCEPT !.subscribed = TRUE,
                                                   !.newsrc_ent = <<Ent(1, 0)>>]

\* C26: mutt_newsgroup_unsubscribe on a known group clears subscribed and
\* clears the range list, unless C_SaveUnsubscribed is set: then the list is
\* left exactly as it was
C26_UnsubscribeRanges ==
  (call.op = "unsubscribe" /\ hash_find(pre.gl, call.group) # 0) =>
    LET k == hash_find(pre.gl, call.group)
    IN /\ call.rc = 1
       /\ Len(groups_list) = Len(pre.gl)
       /\ ~groups_list[k].subscribed
       /\ groups_list[k].newsrc_ent =
            IF C_SaveUnsubscribed THEN pre.gl[k].newsrc_ent ELSE <<>>

\* C26 witness: with C_SaveUnsubscribed set, the subscribed "a" kept
\* [1,2],[3,3] when it was unsubscribed
C26_Witness ==
  /\ call.op = "unsubscribe"
  /\ call.group = <<"a">>
  /\ C_SaveUnsubscribed
  /\ LET k == hash_find(pre.gl, <<"a">>)
     IN /\ k # 0
        /\ pre.gl[k].subscribed
        /\ pre.gl[k].newsrc_ent = <<Ent(1, 2), Ent(3, 3)>>
        /\ ~groups_list[k].subscribed
        /\ groups_list[k].newsrc_ent = <<Ent(1, 2), Ent(3, 3)>>

\* C26 witness of the clearing: without C_SaveUnsubscribed the list
\* [1,2],[3,3] of "a" was cleared
C26_WitnessCleared ==
  /\ call.op = "unsubscribe"
  /\ call.group = <<"a">>
  /\ ~C_SaveUnsubscribed
  /\ LET k == hash_find(pre.gl, <<"a">>)
     IN /\ k # 0
        /\ pre.gl[k].subscribed
        /\ pre.gl[k].newsrc_ent = <<Ent(1, 2), Ent(3, 3)>>
        /\ ~groups_list[k].subscribed
        /\ groups_list[k].newsrc_ent = <<>>

\* the account has its handle open and holds the lock taken through it
HoldsLock == fp_newsrc /\ lk[1].locked

\* the handle is open on the file now found at the subscription path
OnSubscriptionFile == lk[1].fp = path_ino

\* C27: from the return of a successful nntp_newsrc_parse until
\* nntp_newsrc_close the account holds the lock (also across a repeated
\* nntp_newsrc_parse on the open handle), and nntp_newsrc_close leaves the lock
\* released and the handle cleared.
C27_LockHeld ==
  [][/\ (nntp_newsrc_parse("ok") => HoldsLock')
     /\ ((HoldsLock /\ ~nntp_newsrc_close) => HoldsLock')
     /\ (nntp_newsrc_close => (~fp_newsrc' /\ lk'[1] = NoHandle))]_vars

\* C27, the part that holds: a successful parse takes the lock on the file at
\* the path, and close releases it and clears the handle.
C27_TakenAndReleased ==
  [][/\ (nntp_newsrc_parse("ok") => (HoldsLock' /\ OnSubscriptionFile'))
     /\ (nntp_newsrc_close => (~fp_newsrc' /\ lk'[1] = NoHandle))]_vars

\* C27: the lock the account holds is a lock on the subscription file.
C27_OnSubscriptionFile == HoldsLock => OnSubscriptionFile

\* process p holds the lock on the file now found at the subscription path
LocksPath(p) == lk[p].locked /\ lk[p].fp = path_ino

C28_WitnessPeer ==
  /\ lk[2].locked
  /\ lk[2].fp # path_ino
  /\ LocksPath(1)

\* C29: a nntp_newsrc_parse that fails (open, lock or stat) leaves every
\* group's subscribed flag, range list, bounds and unread count and the
\* account's (size, mtime) fingerprint as they were.
C29_FailedParseKeeps ==
  [][(Parse /\ call'.rc = -1) =>
       /\ groups_list' = groups_list
       /\ adata_size' = adata_size
       /\ adata_mtime' = adata_mtime]_vars

\* a parse has failed on an account that holds a subscribed group with a read
\* range and whose file no longer has the recorded fingerprint
C29_Witness ==
  /\ call.op = "parse"
  /\ call.rc = -1
  /\ ~newsrc_unchanged
  /\ adata_size # 0
  /\ \E i \in 1 .. Len(groups_list) :
       /\ groups_list[i].subscribed
       /\ groups_list[i].newsrc_ent # <<>>
       /\ groups_list[i].unread # 0

\* the three outcomes: Failed is -1, Unchanged is 0, Updated is 1; Unchanged is
\* reported only when nothing changed and Updated only when something did
Outcome(rc, changed) ==
  /\ rc \in {-1, 0, 1}
  /\ rc = 0 => ~changed
  /\ rc = 1 => changed

\* nntp_newsrc_update returns in this step
UpdateReturns == upd_pc # "idle" /\ upd_pc' = "idle"

\* what nntp_newsrc_parse changed in this step: the groups or the fingerprint
ParseChanged == <<groups_list, adata_size, adata_mtime>>' # <<groups_list, adata_size, adata_mtime>>

\* what the nntp_newsrc_update that returns in this step changed: the .newsrc
\* or the fingerprint
UpdateChanged == newsrc' # upd_old \/ <<adata_size, adata_mtime>>' # <<adata_size, adata_mtime>>

\* C30: nntp_newsrc_parse, nntp_newsrc_update and nntp_active_save_cache each
\* report Failed, Unchanged or Updated, so that a success that changed nothing
\* and a success that changed state are reported differently.
C30_TriState ==
  [][/\ (Parse => Outcome(call'.rc, ParseChanged))
     /\ (UpdateReturns => Outcome(call'.rc, UpdateChanged))
     /\ (SaveCache => Outcome(call'.rc, active' # active))]_vars

\* C30 amended: nntp_newsrc_parse reports the three outcomes;
\* nntp_newsrc_update and nntp_active_save_cache report -1 for a failure and 0
\* for every success, whether or not it changed anything.
C30_Amended ==
  [][/\ (Parse => Outcome(call'.rc, ParseChanged))
     /\ (UpdateReturns => call'.rc \in {-1, 0})
     /\ (SaveCache => call'.rc \in {-1, 0})]_vars

\* nntp_newsrc_update has returned 0 after it replaced the .newsrc by a
\* different text and recorded its fingerprint
C30_Witness ==
  /\ call = Called("update", <<>>, 0)
  /\ upd_pc = "idle"
  /\ newsrc # upd_old
  /\ newsrc = upd_buf
  /\ adata_size = Len(newsrc)

\* nntp_active_save_cache has returned 0 after it wrote the cache file
C30_WitnessSaved ==
  /\ call = Called("save_cache", <<>>, 0)
  /\ cacheable
  /\ Len(active) > 2

\* nntp_active_save_cache has returned 0 and done nothing: no cache
C30_WitnessNoCache ==
  /\ call = Called("save_cache", <<>>, 0)
  /\ ~cacheable
  /\ groups_list # <<>>

\* nntp_newsrc_parse has returned Unchanged on a registry it filled before
C30_WitnessParse ==
  /\ call = Called("parse", <<>>, 0)
  /\ adata_size # 0
  /\ groups_list # <<>>

\* the group that mdata_find(adata, name) answers with in the state before
Before(name) ==
  IF hash_find(groups_list, name) = 0 THEN NewGroup(name)
  ELSE groups_list[hash_find(groups_list, name)]

\* the groups other than the one named keep their place and their fields
RestKept(name) ==
  /\ Len(groups_list') = Len(groups_list) + (IF hash_find(groups_list, name) = 0 THEN 1 ELSE 0)
  /\ \A k \in 1 .. Len(groups_list) :
       groups_list[k].group # name => groups_list'[k] = groups_list[k]

\* the number of articles of the window [first, last]
FullSpan(first, last) ==
  IF last # 0 /\ first <= last THEN UAdd(USub(last, first), 1) ELSE 0

\* what the claim says of the group named by the line with the fields f
Listed(f, old, new) ==
  /\ ~new.deleted
  /\ new.first_message = f.first
  /\ new.last_message = f.last
  /\ new.allowed <=> f.mod \in {"y", "m"}
  /\ new.desc = f.desc
  /\ new.unread =
       IF old.newsrc_ent = <<>> /\ old.last_cached = 0
       THEN FullSpan(f.first, f.last)
       ELSE nntp_group_unread_stat(
              [old EXCEPT !.first_message = f.first, !.last_message = f.last]).unread
  /\ new.group = old.group
  /\ new.subscribed = old.subscribed
  /\ new.newsrc_ent = old.newsrc_ent
  /\ new.last_cached = old.last_cached
  /\ new.last_loaded = old.last_loaded

AddGroupEffect(line) ==
  LET f == ScanActive(line)
  IN IF f.n < 4
     THEN groups_list' = groups_list
     ELSE /\ hash_find(groups_list', f.group) # 0
          /\ Listed(f, Before(f.group), groups_list'[hash_find(groups_list', f.group)])
          /\ RestKept(f.group)

\* C31: nntp_add_group on a line of at least four fields marks the group
\* present, stores the line's bounds, the posting flag (y or m) and the
\* description, and sets unread from the existing ranges, or to the full span
\* when the group has neither ranges nor a last-cached marker; a line of fewer
\* than four fields creates no group and changes nothing.
C31_AddGroup ==
  [][\A line \in ListingLines : AddGroupFrom({line}) => AddGroupEffect(line)]_vars

\* a listed group whose ranges cover part of its window: unread is below the span
C31_Witness ==
  /\ call = Called("add_group", <<"a">>, 0)
  /\ groups_list # <<>>
  /\ groups_list[1].newsrc_ent # <<>>
  /\ groups_list[1].unread # 0
  /\ groups_list[1].unread # FullSpan(groups_list[1].first_message, groups_list[1].last_message)
  /\ groups_list[1].allowed

\* a line of three fields named group "b": no group "b" was created
C31_WitnessShort ==
  /\ call = Called("add_group", <<"b">>, 0)
  /\ hash_find(groups_list, <<"b">>) = 0
  /\ groups_list # <<>>

\* a group with a last-cached marker and no ranges was listed
C31_WitnessCached ==
  /\ call = Called("add_group", <<"a">>, 0)
  /\ groups_list[1].newsrc_ent = <<>>
  /\ groups_list[1].last_cached # 0
  /\ groups_list[1].unread # 0

\* the groups of gl that are present on the server, in registry order
Present(gl) == SelectSeq(gl, LAMBDA g : ~g.deleted)

\* the cache file holds what nntp_active_save_cache writes for the registry
CacheCurrent ==
  /\ newgroups_time # 0
  /\ active = ActiveBuf(groups_list, newgroups_time)

\* text is the timestamp line followed by one line for each group of gs, in order
CacheFormat(text, t, gs) ==
  /\ Len(Lines(text)) = 1 + Len(gs)
  /\ Lines(text)[1] = FmtU(t) \o <<"\n">>
  /\ \A k \in 1 .. Len(gs) :
       StartsWith(Lines(text)[k + 1], gs[k].group \o <<" ">>)

\* loaded holds the groups of gs with their bounds, posting flag and description
Reproduces(loaded, gs) ==
  /\ Len(loaded) = Len(gs)
  /\ \A k \in 1 .. Len(gs) :
       /\ loaded[k].group = gs[k].group
       /\ ~loaded[k].deleted
       /\ loaded[k].first_message = gs[k].first_message
       /\ loaded[k].last_message = gs[k].last_message
       /\ loaded[k].allowed = gs[k].allowed
       /\ loaded[k].desc = gs[k].desc

\* C32: nntp_active_save_cache writes the refresh timestamp as the first line
\* and then one line for each group present on the server, none for a deleted
\* group, in registry order; active_get_cache of that file into an empty
\* registry reproduces these groups' bounds, posting flag and description.
C32_CacheRoundTrip ==
  [][/\ (nntp_active_save_cache("ok") /\ cacheable)
          => CacheFormat(active', newgroups_time, Present(groups_list))
     /\ (LoadCache /\ CacheCurrent)
          => (call'.rc = 0 /\ Reproduces(groups_list', Present(groups_list)))]_vars

\* the cache was saved from a registry that holds a deleted group before a
\* group present on the server, with a description and closed to posting
C32_WitnessSaved ==
  /\ call = Called("save_cache", <<>>, 0)
  /\ CacheCurrent
  /\ Len(groups_list) = 2
  /\ groups_list[1].deleted
  /\ groups_list[2].desc # <<>> /\ ~groups_list[2].allowed /\ ~groups_list[2].deleted

\* the cache was loaded: two groups, one with a description and closed to posting
C32_Witness ==
  /\ call = Called("get_cache", <<>>, 0)
  /\ CacheCurrent
  /\ Len(groups_list) = 2
  /\ \E k \in 1 .. 2 : groups_list[k].desc # <<>> /\ ~groups_list[k].allowed
  /\ \E k \in 1 .. 2 : groups_list[k].allowed /\ groups_list[k].first_message # 0


-----------------------------------------------------------------------------
(* The purge of a group's caches *)

\* the group whose caches are modelled, as it is now and as the step leaves it
CacheMdata == groups_list[hash_find(groups_list, CacheGroup)]
CacheMdataNext == groups_list'[hash_find(groups_list', CacheGroup)]

\* C34: nntp_delete_group_cache on any group deletes every cached header and
\* body entry of the group, whatever the article number and whatever the
\* bounds of the group, and resets last_cached to 0.
C34_PurgeAll ==
  [][DeleteGroupCache =>
       /\ hc_index' = <<>>
       /\ hc_keys' = {}
       /\ bcache' = {}
       /\ CacheMdataNext.last_cached = 0]_vars

\* C34, the part that holds: on an account with a cache directory the purge
\* deletes every entry, inside the window of the group or outside, and
\* resets last_cached; nothing else of the group changes.
C34_PurgeCacheable ==
  [][DeleteGroupCache /\ cacheable =>
       /\ hc_index' = <<>>
       /\ hc_keys' = {}
       /\ bcache' = {}
       /\ CacheMdataNext = [CacheMdata EXCEPT !.last_cached = 0]]_vars

\* C34: the purge of an account without cache directory has left a body
C34_WitnessLeft ==
  /\ call.op = "delete_group_cache"
  /\ ~cacheable
  /\ bcache # {}


-----------------------------------------------------------------------------
(* The sweep of the cache directory *)

\* the registry tracks a group of this name
Tracked(name) == \E i \in 1 .. Len(groups_list) : groups_list[i].group = name

\* the tracked group of this name is subscribed or kept by the policy
SubscribedOrRetained(name) ==
  \E i \in 1 .. Len(groups_list) :
    /\ groups_list[i].group = name
    /\ groups_list[i].subscribed \/ C_SaveUnsubscribed

\* the tracked group of this name is subscribed, holds range state or is
\* kept by the policy
InUse(name) ==
  \E i \in 1 .. Len(groups_list) :
    /\ groups_list[i].group = name
    /\ \/ groups_list[i].subscribed
       \/ groups_list[i].newsrc_ent # <<>>
       \/ C_SaveUnsubscribed

\* the step leaves the caches of the group whose caches are modelled alone
CachesKept == UNCHANGED <<hc_index, hc_keys, bcache>>

C33_WitnessSwept ==
  /\ call.op = "clear_cache"
  /\ cacheable
  /\ \E i \in 1 .. Len(groups_list) :
       /\ ~InUse(groups_list[i].group)
       /\ ~\E x \in cachedir : x.name = groups_list[i].group
  /\ \E x \in cachedir : x.kind = "hcache" /\ SubscribedOrRetained(x.name)
  /\ ~\E x \in cachedir : ~Tracked(x.name)


-----------------------------------------------------------------------------
(* The registry of groups *)

NamesOf(gl) == [i \in 1 .. Len(gl) |-> gl[i].group]

\* the names a text of the .newsrc refers to, in the order of its lines
RECURSIVE RefsOf(_)
RefsOf(ls) ==
  IF ls = <<>> THEN <<>>
  ELSE LET p == FirstOf(Head(ls), {":", "!"})
       IN (IF p = 0 THEN <<>> ELSE <<SubSeq(Head(ls), 1, p - 1)>>) \o RefsOf(Tail(ls))

\* ns followed by the names of refs that are new, each once, in their order
RECURSIVE AppendNew(_, _)
AppendNew(ns, refs) ==
  IF refs = <<>> THEN ns
  ELSE AppendNew(IF \E i \in 1 .. Len(ns) : ns[i] = Head(refs) THEN ns
                 ELSE Append(ns, Head(refs)),
                 Tail(refs))

\* the names the step refers to with mdata_find
Referred ==
  IF call'.op = "parse" /\ call'.rc = 1 THEN RefsOf(Lines(newsrc))
  ELSE IF call'.op = "add_group" \/ (call'.op = "subscribe" /\ call'.rc = 1)
       THEN <<call'.group>>
       ELSE <<>>

\* each name once, and the lookup of a name gives the group the list holds
RegistryUnique(gl) ==
  /\ \A i, j \in 1 .. Len(gl) : gl[i].group = gl[j].group => i = j
  /\ \A i \in 1 .. Len(gl) : hash_find(gl, gl[i].group) = i

\* C35: after any sequence of parses of the .newsrc, lines of the active
\* listing and subscriptions, with names of any kind given any number of
\* times, the registry holds each name once in the order of first reference,
\* the lookup of a name gives the group the list holds, and no step removes a
\* group or changes the order of the groups there are.
C35_Registry ==
  [][/\ RegistryUnique(groups_list')
     /\ Len(groups_list') >= Len(groups_list)
     /\ SubSeq(NamesOf(groups_list'), 1, Len(groups_list)) = NamesOf(groups_list)
     /\ IF EditNames THEN UNCHANGED groups_list
        ELSE NamesOf(groups_list') = AppendNew(NamesOf(groups_list), Referred)]_vars

\* C35: three groups, the one with the empty name first, after a parse that
\* met a name twice
C35_Witness ==
  /\ Len(groups_list) = 3
  /\ groups_list[1].group = <<>>
  /\ call.op = "parse"
  /\ call.rc = 1
  /\ \E i, j \in 1 .. Len(RefsOf(Lines(newsrc))) :
       i # j /\ RefsOf(Lines(newsrc))[i] = RefsOf(Lines(newsrc))[j]

\* C35: the same three groups in another order
C35_WitnessOrder ==
  /\ Len(groups_list) = 3
  /\ groups_list[3].group = <<>>
  /\ groups_list[1].group = <<"b">>

\* C36: a group created by mdata_find is absent from the server (deleted),
\* unsubscribed, with bounds (0, 0), no range state and unread 0; mdata_find
\* with a name the registry holds gives the registry back, no field reset.
C36_FreshGroup ==
  \A name \in CmdNames \cup {<<"c">>} :
    LET gl1 == mdata_find(groups_list, name)
    IN /\ mdata_find(gl1, name) = gl1
       /\ IF \E i \in 1 .. Len(groups_list) : groups_list[i].group = name
          THEN gl1 = groups_list
          ELSE /\ Len(gl1) = Len(groups_list) + 1
               /\ SubSeq(gl1, 1, Len(groups_list)) = groups_list
               /\ gl1[Len(gl1)].group = name
               /\ gl1[Len(gl1)].deleted
               /\ ~gl1[Len(gl1)].subscribed
               /\ gl1[Len(gl1)].first_message = 0
               /\ gl1[Len(gl1)].last_message = 0
               /\ gl1[Len(gl1)].newsrc_ent = <<>>
               /\ gl1[Len(gl1)].unread = 0

\* C36: the registry holds a group that is on the server, subscribed, with
\* bounds, range state and unread articles, and lacks another
C36_Witness ==
  /\ \E i \in 1 .. Len(groups_list) :
       /\ ~groups_list[i].deleted
       /\ groups_list[i].subscribed
       /\ groups_list[i].last_message > 0
       /\ groups_list[i].newsrc_ent # <<>>
       /\ groups_list[i].unread > 0
       /\ mdata_find(groups_list, groups_list[i].group) = groups_list
  /\ ~Tracked(<<"b">>)

\* C40: mutt_newsgroup_unsubscribe, mutt_newsgroup_catchup and
\* mutt_newsgroup_uncatchup given a name the registry does not hold, or the
\* empty name, return no group, create none and leave the registry and every
\* group as they are.
C40_UnknownName ==
  [][\A group \in CmdNames :
       /\ \/ mutt_newsgroup_unsubscribe(group)
          \/ mutt_newsgroup_catchup(group)
          \/ mutt_newsgroup_uncatchup(group)
       /\ group = <<>> \/ ~Tracked(group)
       => /\ call'.rc = 0
          /\ UNCHANGED <<groups_list, emails>>]_vars

\* C40: the empty name was given to unsubscribe while the registry holds a
\* subscribed group of that name, and nothing was returned
C40_Witness ==
  /\ call = Called("unsubscribe", <<>>, 0)
  /\ \E i \in 1 .. Len(groups_list) :
       groups_list[i].group = <<>> /\ groups_list[i].subscribed

\* C40: catchup and uncatchup were given a name the registry lacks
C40_WitnessCatchup ==
  /\ call.op \in {"catchup", "uncatchup"}
  /\ call.group # <<>>
  /\ ~Tracked(call.group)
  /\ groups_list # <<>>


-----------------------------------------------------------------------------
(* Subscribed groups and their range state *)

\* the text nntp_newsrc_update would write holds a line of this subscribed
\* group
LineWritten(mdata) ==
  \E k \in 1 .. Len(Lines(NewsrcBuf(groups_list, 1))) :
    LET l == Lines(NewsrcBuf(groups_list, 1))[k]
    IN /\ Len(l) > Len(mdata.group)
       /\ SubSeq(l, 1, Len(mdata.group) + 1) = mdata.group \o <<":">>

\* C37: in every state reached by parse, subscribe, unsubscribe, catchup,
\* uncatchup and the synthesis from the open mailbox (an empty article list
\* with last_loaded = 0 included) a subscribed group has range state, so that
\* nntp_newsrc_update writes a line for every subscribed group.
C37_SubscribedHasRanges ==
  \A i \in 1 .. Len(groups_list) :
    groups_list[i].subscribed =>
      /\ groups_list[i].newsrc_ent # <<>>
      /\ LineWritten(groups_list[i])

\* C37: the synthesis over an empty article list has left a subscribed group
\* without range state
C37_WitnessLost ==
  /\ call.op = "gen_entries"
  /\ emails = <<>>
  /\ groups_list[m_mdata].subscribed
  /\ groups_list[m_mdata].last_loaded = 0
  /\ groups_list[m_mdata].newsrc_ent = <<>>
  /\ ~LineWritten(groups_list[m_mdata])


-----------------------------------------------------------------------------
(* The fingerprint after a rewrite *)

\* C38: after a successful nntp_newsrc_update the recorded fingerprint is the
\* size and modification time of the file just written, and the
\* nntp_newsrc_parse that follows returns Unchanged and touches no group;
\* after a failed update the recorded fingerprint is what it was.
C38_FingerprintFollows ==
  [][/\ UpdateReturns /\ call'.rc = 0 =>
          /\ newsrc' = upd_buf
          /\ <<adata_size', adata_mtime'>> = <<Len(newsrc'), newsrc_mtime'>>
     /\ UpdateReturns /\ call'.rc # 0 => UNCHANGED <<adata_size, adata_mtime>>
     /\ nntp_newsrc_parse("ok") /\ call = Called("update", <<>>, 0) =>
          /\ call'.rc = 0
          /\ UNCHANGED <<groups_list, adata_size, adata_mtime>>]_vars

\* C38: a parse has returned Unchanged on a .newsrc that a rewrite produced,
\* with a subscribed group in the registry
C38_Witness ==
  /\ call = Called("parse", <<>>, 0)
  /\ newsrc # <<>>
  /\ newsrc = NewsrcBuf(groups_list, 1)
  /\ \E i \in 1 .. Len(groups_list) : groups_list[i].subscribed

\* C38: an update has failed after the file was replaced, the fingerprint is
\* the old one
C38_WitnessFailed ==
  /\ call = Called("update", <<>>, -1)
  /\ newsrc # <<>>
  /\ <<adata_size, adata_mtime>> # <<Len(newsrc), newsrc_mtime>>


-----------------------------------------------------------------------------
(* The lock at the return of nntp_select_server *)

\* C39: when nntp_select_server returns, the lock on the subscription file is
\* held if and only if it returned an account and leave_lock was true; on
\* every failure path (connection, parse, listing) it returns no account,
\* with the lock released and the handle closed.
C39_LockAtReturn ==
  [][\A leave_lock \in BOOLEAN :
       SelectReturn(leave_lock) =>
         /\ HoldsLock' <=> (call'.rc = 0 /\ leave_lock)
         /\ lk'[1].locked <=> (call'.rc = 0 /\ leave_lock)
         /\ call'.rc = 0 <=> call.op = "clear_cache"
         /\ call'.rc < 0 => /\ ~fp_newsrc'
                            /\ lk'[1] = NoHandle
                            /\ groups_list' = <<>>]_vars

\* C39: the server was selected and the lock left, with groups from the
\* .newsrc and the listing in the registry
C39_Witness ==
  /\ call = Called("select_server", <<>>, 0)
  /\ HoldsLock
  /\ \E i \in 1 .. Len(groups_list) : groups_list[i].subscribed
  /\ \E i \in 1 .. Len(groups_list) : ~groups_list[i].deleted

\* C39: the server was selected and the lock given up
C39_WitnessReleased ==
  /\ call = Called("select_server", <<>>, 0)
  /\ ~fp_newsrc
  /\ lk[1] = NoHandle
  /\ groups_list # <<>>

\* C39: the selection failed and the second client holds the lock
C39_WitnessFailed ==
  /\ call = Called("select_server", <<>>, -1)
  /\ lk[1] = NoHandle
  /\ lk[2].locked
====
